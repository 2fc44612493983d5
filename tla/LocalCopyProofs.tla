-------------------------- MODULE LocalCopyProofs --------------------------
(***************************************************************************)
(* Proofs about the local copy engine, for every set of jobs, sources and  *)
(* configurations and for every choice of failures and bounds.             *)
(***************************************************************************)
EXTENDS LocalCopy, WellFoundedInduction, TLAPS

(***************************************************************************)
(* The maximum that the scan takes exists: the timestamps are a bounded    *)
(* set of naturals.                                                        *)
(***************************************************************************)

\* A non-empty set of integers between m and n has a maximum, and Max is it
\* (the newest of the timestamps that scanBackupDir compares).
LEMMA MaxOfInterval ==
    ASSUME NEW n \in Nat, NEW m \in Nat, NEW S \in SUBSET (m .. n), S # {}
    PROVE  Max(S) \in S /\ \A x \in S : x <= Max(S)
<1> DEFINE R == OpToRel(<, Nat)
           T == {y \in Nat : n - y \in S}
<1>1. \A x, y \in Nat : x < y => <<x, y>> \in R
  BY DEF OpToRel
<1>2. T \subseteq Nat /\ T # {}
  <2>1. PICK x \in S : TRUE  OBVIOUS
  <2>2. n - x \in Nat /\ n - (n - x) = x  OBVIOUS
  <2>. QED  BY <2>1, <2>2
<1>3. IsWellFoundedOn(R, Nat)
  BY NatLessThanWellFounded
<1>4. PICK y \in T : \A z \in T : ~(<<z, y>> \in R)
  <2>. HIDE DEF R, T
  <2>. QED  BY <1>2, <1>3, WFMin
<1>5. y \in Nat /\ n - y \in S
  OBVIOUS
<1>6. \A z \in T : ~(z < y)
  <2>. HIDE DEF R
  <2>. QED  BY <1>1, <1>2, <1>4, <1>5
<1>7. \A x \in S : x <= n - y
  <2>. HIDE DEF R
  <2>. SUFFICES ASSUME NEW x \in S, x > n - y PROVE FALSE
    BY <1>5
  <2>1. n - x \in Nat /\ n - (n - x) = x  OBVIOUS
  <2>2. n - x < y  BY <1>5, <2>1
  <2>. QED  BY <1>6, <2>1, <2>2
<1>. QED
  <2>. HIDE DEF R
  <2>. QED  BY <1>5, <1>7 DEF Max

\* latestBackupFiles returns for every id a timestamp or none.
LEMMA ScanType ==
    ASSUME NEW es, NEW bad
    PROVE  Scan(es, bad) \in [IDs -> Time \cup {Absent}]
<1> DEFINE Found(id) == {d \in Dirs \ bad :
                            /\ \E e \in es : Active(e) /\ PlaceOf(e) = <<d, id>>
                            /\ Stamps(<<d, id>>) # {}}
<1> SUFFICES ASSUME NEW id \in IDs, Found(id) # {}
             PROVE  Max(Stamps(<<Max(Found(id)), id>>)) \in Time
  BY DEF Scan
<1>1. Max(Found(id)) \in Found(id)
  <2>1. Found(id) \in SUBSET (1 .. NumDirs)  BY DEF Dirs
  <2> HIDE DEF Found
  <2>. QED  BY <2>1, MaxOfInterval, BoundsAssumption
<1>2. Stamps(<<Max(Found(id)), id>>) # {}
  BY <1>1
<1>3. Stamps(<<Max(Found(id)), id>>) \in SUBSET (0 .. MaxTime)
  BY DEF Stamps, Time
<1>. QED
  <2> HIDE DEF Found
  <2>. QED  BY <1>2, <1>3, MaxOfInterval, BoundsAssumption DEF Time

(***************************************************************************)
(* The inductive invariant.                                                *)
(***************************************************************************)

\* The entries engine j can have read from the config box.
Offered(j) == {e \in Entries : \E c \in Configs :
                 e \in c[j] /\ (c = config \/ "reload" \in Events)}

\* What may stand under the final name n: the gzip tail is all that can miss.
Sound(n, f) == f # Absent /\ ("close" \notin Events \/ ~n.gz => f.whole)

\* What the pass of engine j knows about the files it has made: it copies an
\* entry it was offered and holds its connection; only compressed entries go
\* through gzip, only plain ones get a link; what is about to be promoted or
\* linked is there, and sound.
PassInv(j) ==
    /\ job[j].todo \subseteq Offered(j)
    /\ job[j].pc \in Steps => /\ job[j].cur \in Offered(j)
                               /\ pool[j][cur(j).src] # Absent
    /\ job[j].pc \in {"dropFailed", "gzip", "zipping", "drop"} => cur(j).gz
    /\ job[j].pc \in {"unlink", "link", "swap"} => ~cur(j).gz
    /\ job[j].pc \in {"gzip", "zipping"} => job[j].got.whole
    /\ job[j].pc = "zipping" => part[File(j)] # Absent
    /\ job[j].pc = "promote" \/ (job[j].pc = "drop" /\ job[j].ok)
            => Sound(File(j), part[File(j)])
    /\ job[j].pc \in {"unlink", "link"} => snap[File(j)] # Absent

SnapsSound == \A n \in Name : snap[n] # Absent => Sound(n, snap[n])
LinksWhole == /\ \A p \in Place : ltmp[p] # Absent => ltmp[p].file.whole
              /\ \A p \in Place : link[p] # Absent => link[p].file.whole

IInv == TypeOK /\ (\A j \in Jobs : PassInv(j)) /\ SnapsSound /\ LinksWhole

(***************************************************************************)
(* Facts about the names in use.                                           *)
(***************************************************************************)

\* An active entry of the configuration has a place among the ids in use.
LEMMA EntryTypes ==
    ASSUME NEW e \in Entries, Active(e)
    PROVE  /\ e \in Entry /\ e.src \in Sources /\ e.dir \in Dirs
           /\ e.gz \in BOOLEAN
           /\ BackupID(e) \in IDs /\ PlaceOf(e) \in Place
<1>1. e \in Entry
  BY ConfigAssumption DEF Entries
<1>2. e.src \in Sources /\ e.dir \in Dirs /\ e.gz \in BOOLEAN
  BY <1>1 DEF Entry, Active
<1>3. BackupID(e) \in IDs
  BY DEF IDs
<1>. QED
  BY <1>1, <1>2, <1>3 DEF PlaceOf, Place

\* What a pass that copies writes to is well named.
LEMMA StepTypes ==
    ASSUME TypeOK, NEW j \in Jobs, job[j].pc \in Steps
    PROVE  /\ File(j) \in Name /\ At(j) \in Place
           /\ Dump(j) \in Jobs \X IDs \X Time
           /\ cur(j).src \in Sources
           /\ File(j).gz = cur(j).gz /\ cur(j).gz \in BOOLEAN
<1>1. job[j].cur \in Entries /\ Active(job[j].cur) /\ job[j].at \in Time
  BY DEF TypeOK, Job
<1>. QED
  BY <1>1, EntryTypes DEF File, At, Dump, cur, NameOf, Name, PlaceOf

\* Two engines that copy at the same time write to different names.
LEMMA Isolated ==
    ASSUME IInv, NEW j \in Jobs, NEW k \in Jobs, j # k,
           job[j].pc \in Steps, job[k].pc \in Steps
    PROVE  File(j) # File(k) /\ At(j) # At(k)
<1> DEFINE e == cur(j)
           f == cur(k)
<1>1. Active(e) /\ Active(f)
  BY DEF IInv, TypeOK, cur
<1>2. PICK c \in Configs : e \in c[j] /\ (c = config \/ "reload" \in Events)
  BY DEF IInv, PassInv, Offered, cur
<1>3. PICK d \in Configs : f \in d[k] /\ (d = config \/ "reload" \in Events)
  BY DEF IInv, PassInv, Offered, cur
<1>4. ~(e.dir = f.dir /\ BackupID(e) = BackupID(f))
  <2>1. c = d \/ "reload" \in Events
    BY <1>2, <1>3
  <2>. HIDE DEF e, f
  <2>. QED  BY <1>1, <1>2, <1>3, <2>1, OneWriterAssumption
<1>. QED
  BY <1>4 DEF File, At, NameOf, PlaceOf

(***************************************************************************)
(* What a step of one engine does to the jobs and the pools.               *)
(***************************************************************************)

PCs == Resting \cup {"loop"} \cup Steps

JobsOK == /\ job \in [Jobs -> Job]
          /\ \A j \in Jobs : job[j].pc \in Steps =>
                job[j].cur \in Entries /\ Active(job[j].cur)

PoolOK == pool \in [Jobs -> [Sources -> Conn \cup {Absent}]]

\* The pass of engine j goes to another of its steps.
LEMMA GotoFacts ==
    ASSUME JobsOK, NEW j \in Jobs, NEW l \in PCs, Goto(j, l),
           l \in Steps => job[j].pc \in Steps
    PROVE  /\ JobsOK'
           /\ job'[j].pc = l /\ job'[j].at = job[j].at
           /\ job'[j].todo = job[j].todo /\ job'[j].cur = job[j].cur
           /\ job'[j].got = job[j].got /\ job'[j].ok = job[j].ok
           /\ \A k \in Jobs \ {j} : job'[k] = job[k]
<1> DEFINE r == [job[j] EXCEPT !.pc = l]
<1>1. job[j] \in Job
  BY DEF JobsOK
<1>2. job' = [job EXCEPT ![j] = r]
  BY DEF Goto
<1>3. r \in Job
  BY <1>1 DEF Job, PCs
<1>4. /\ r.pc = l /\ r.at = job[j].at /\ r.todo = job[j].todo
      /\ r.cur = job[j].cur /\ r.got = job[j].got /\ r.ok = job[j].ok
  BY <1>1 DEF Job
<1>5. job'[j] = r /\ \A k \in Jobs \ {j} : job'[k] = job[k]
  BY <1>2 DEF JobsOK
<1>. QED
  <2>. HIDE DEF r
  <2>1. job' \in [Jobs -> Job]
    BY <1>2, <1>3 DEF JobsOK
  <2>. QED  BY <1>4, <1>5, <2>1 DEF JobsOK

\* An entry is over: the connection stays in the pool.
LEMMA EndEntryFacts ==
    ASSUME JobsOK, PoolOK, now \in Time, NEW j \in Jobs, NEW err \in BOOLEAN,
           EndEntry(j, err), cur(j).src \in Sources,
           pool[j][cur(j).src] # Absent
    PROVE  /\ JobsOK' /\ PoolOK'
           /\ job'[j].pc = "loop" /\ job'[j].todo \subseteq job[j].todo
           /\ \A k \in Jobs \ {j} : job'[k] = job[k] /\ pool'[k] = pool[k]
<1> DEFINE r == [job[j] EXCEPT !.pc = "loop", !.todo = @ \ {cur(j)},
                               !.cur = NoEntry, !.got = Partial,
                               !.failed = @ \/ err]
           c == [pool[j][cur(j).src] EXCEPT !.used = now]
<1>1. job[j] \in Job
  BY DEF JobsOK
<1>2. job' = [job EXCEPT ![j] = r]
  BY DEF EndEntry
<1>3. r \in Job
  BY <1>1 DEF Job, Content, Partial
<1>4. r.pc = "loop" /\ r.todo = job[j].todo \ {cur(j)}
  BY <1>1 DEF Job
<1>5. job'[j] = r /\ \A k \in Jobs \ {j} : job'[k] = job[k]
  BY <1>2 DEF JobsOK
<1>6. JobsOK'
  <2>. HIDE DEF r
  <2>1. job' \in [Jobs -> Job]
    BY <1>2, <1>3 DEF JobsOK
  <2>. QED  BY <1>4, <1>5, <2>1 DEF JobsOK, Steps
<1>7. c \in Conn
  BY DEF PoolOK, Conn
<1>8. pool' = [pool EXCEPT ![j] = [pool[j] EXCEPT ![cur(j).src] = c]]
  BY DEF EndEntry
<1>9. PoolOK' /\ \A k \in Jobs \ {j} : pool'[k] = pool[k]
  <2>. HIDE DEF c
  <2>. QED  BY <1>7, <1>8 DEF PoolOK
<1>. QED
  BY <1>4, <1>5, <1>6, <1>9

(***************************************************************************)
(* What a step of one engine leaves to the others.                         *)
(***************************************************************************)

FilesOK == /\ staged \subseteq (Jobs \X IDs \X Time)
           /\ part \in [Name -> Content \cup {Absent}]
           /\ snap \in [Name -> Content \cup {Absent}]
           /\ ltmp \in [Place -> Linked \cup {Absent}]
           /\ link \in [Place -> Linked \cup {Absent}]

BoxOK == /\ now \in Time
         /\ spent \in 0 .. MaxEvents
         /\ untidy \in BOOLEAN
         /\ config \in Configs
         /\ contents \in [Sources -> SUBSET Time]

\* TypeOK by its parts.
LEMMA TypeParts == TypeOK <=> BoxOK /\ JobsOK /\ PoolOK /\ FilesOK
BY DEF TypeOK, BoxOK, JobsOK, PoolOK, FilesOK

\* An engine whose pass, connections and files are left alone keeps what it
\* knows.
LEMMA OtherPass ==
    ASSUME NEW k \in Jobs, PassInv(k), job'[k] = job[k], config' = config,
           job[k].pc \in Steps =>
                /\ pool'[k][cur(k).src] # Absent
                /\ part'[File(k)] = part[File(k)]
                /\ snap[File(k)] # Absent => snap'[File(k)] # Absent
    PROVE  PassInv(k)'
<1>1. File(k)' = File(k) /\ cur(k)' = cur(k) /\ Offered(k)' = Offered(k)
  BY DEF File, cur, Offered
<1>2. CASE job[k].pc \notin Steps
  BY <1>1, <1>2 DEF PassInv, Steps
<1>3. CASE job[k].pc \in Steps
  <2>1. Sound(File(k), part[File(k)])' <=> Sound(File(k), part[File(k)])
    BY <1>1, <1>3 DEF Sound
  <2>. QED  BY <1>1, <1>3, <2>1 DEF PassInv
<1>. QED  BY <1>2, <1>3

\* The step of engine j is one that the other passes do not notice: it changes
\* nothing of theirs, and of the files only those under its own name.
Local(j) ==
    /\ config' = config
    /\ \A k \in Jobs \ {j} : job'[k] = job[k] /\ pool'[k] = pool[k]
    /\ \A n \in Name \ {File(j)} : part'[n] = part[n]
    /\ \A n \in Name : snap[n] # Absent => snap'[n] # Absent

\* A step of engine j that touches only its own files keeps what every other
\* engine knows about its pass.
LEMMA OthersKeep ==
    ASSUME IInv, NEW j \in Jobs, Local(j),
           job[j].pc \in Steps \/ part' = part
    PROVE  \A k \in Jobs \ {j} : PassInv(k)'
<1>. SUFFICES ASSUME NEW k \in Jobs \ {j} PROVE PassInv(k)'
  OBVIOUS
<1>1. PassInv(k) /\ TypeOK
  BY DEF IInv
<1>2. ASSUME job[k].pc \in Steps
      PROVE  /\ pool'[k][cur(k).src] # Absent
             /\ part'[File(k)] = part[File(k)]
             /\ snap[File(k)] # Absent => snap'[File(k)] # Absent
  <2>1. File(k) \in Name
    BY <1>1, <1>2, StepTypes
  <2>2. pool[k][cur(k).src] # Absent
    BY <1>1, <1>2 DEF PassInv
  <2>3. part' = part \/ File(k) # File(j)
    BY <1>2, Isolated
  <2>. QED  BY <2>1, <2>2, <2>3 DEF Local
<1>3. job'[k] = job[k] /\ config' = config
  BY DEF Local
<1>. QED  BY <1>1, <1>2, <1>3, OtherPass

\* The invariant after a step of engine j, from its parts.
LEMMA AfterStep ==
    ASSUME IInv, NEW j \in Jobs, Local(j),
           job[j].pc \in Steps \/ part' = part,
           BoxOK', JobsOK', PoolOK', FilesOK', PassInv(j)', SnapsSound',
           LinksWhole'
    PROVE  IInv'
<1>1. TypeOK'
  BY TypeParts DEF TypeOK, BoxOK, JobsOK, PoolOK, FilesOK
<1>2. \A k \in Jobs : PassInv(k)'
  BY OthersKeep
<1>. QED  BY <1>1, <1>2 DEF IInv

\* The clock, the configuration and the sources do not change in a pass; at
\* most an injected event is counted.
LEMMA BoxKept ==
    ASSUME BoxOK, UNCHANGED envVars, NoEvent \/ \E kind : Inject(kind)
    PROVE  BoxOK'
<1>1. now' \in Time /\ config' \in Configs /\ contents' \in [Sources -> SUBSET Time]
  BY DEF BoxOK, envVars
<1>2. spent' \in 0 .. MaxEvents
  BY BoundsAssumption DEF BoxOK, NoEvent, Inject
<1>3. untidy' \in BOOLEAN
  <2>1. CASE NoEvent
    BY <2>1 DEF BoxOK, NoEvent
  <2>2. CASE \E kind : Inject(kind)
    <3>1. PICK kind : untidy' = (untidy \/ kind \in {"crash", "remove"})
      BY <2>2 DEF Inject
    <3>. QED  BY <3>1
  <2>. QED  BY <2>1, <2>2
<1>. QED  BY <1>1, <1>2, <1>3 DEF BoxOK

\* What a step of engine j in a pass may assume.
LEMMA StepFacts ==
    ASSUME IInv, NEW j \in Jobs, job[j].pc \in Steps
    PROVE  /\ BoxOK /\ JobsOK /\ PoolOK /\ FilesOK /\ PassInv(j)
           /\ SnapsSound /\ LinksWhole
           /\ File(j) \in Name /\ At(j) \in Place
           /\ Dump(j) \in Jobs \X IDs \X Time
           /\ cur(j).src \in Sources /\ pool[j][cur(j).src] # Absent
           /\ File(j).gz = cur(j).gz /\ cur(j).gz \in BOOLEAN
           /\ job[j].at \in Time /\ job[j].got \in Content
           /\ Offered(j) \subseteq Entries
<1>1. TypeOK /\ PassInv(j)
  BY DEF IInv
<1>2. pool[j][cur(j).src] # Absent
  BY <1>1 DEF PassInv
<1>3. job[j].at \in Time /\ job[j].got \in Content
  BY <1>1 DEF TypeOK, Job
<1>. QED  BY <1>1, <1>2, <1>3, StepTypes, TypeParts DEF IInv, Offered

(***************************************************************************)
(* The steps of a pass.                                                    *)
(***************************************************************************)

\* A step that only moves the pass on, after a call that left no trace.
LEMMA MoveOn ==
    ASSUME IInv, NEW j \in Jobs, job[j].pc \in Steps, NEW l \in Steps,
           Goto(j, l), UNCHANGED <<envVars, pool, fileVars>>,
           NoEvent \/ \E kind : Inject(kind),
           l \in {"dropFailed", "discard"} /\ (l = "dropFailed" => cur(j).gz)
    PROVE  IInv'
<1>1. BoxOK'
  BY StepFacts, BoxKept
<1>2. /\ JobsOK' /\ job'[j].pc = l /\ job'[j].cur = job[j].cur
      /\ job'[j].todo = job[j].todo
      /\ \A k \in Jobs \ {j} : job'[k] = job[k]
  BY StepFacts, GotoFacts DEF PCs
<1>3. PoolOK' /\ FilesOK' /\ SnapsSound' /\ LinksWhole'
  BY StepFacts DEF PoolOK, FilesOK, SnapsSound, LinksWhole, Sound, fileVars
<1>4. Local(j)
  BY <1>2 DEF Local, envVars, fileVars
<1>5. PassInv(j)'
  BY <1>2, StepFacts DEF PassInv, Offered, cur, envVars
<1>. QED  BY <1>1, <1>2, <1>3, <1>4, <1>5, AfterStep

\* A step that ends the entry, whatever it does to the files of that entry.
LEMMA EndStep ==
    ASSUME IInv, NEW j \in Jobs, job[j].pc \in Steps, NEW err \in BOOLEAN,
           EndEntry(j, err), UNCHANGED envVars,
           NoEvent \/ \E kind : Inject(kind),
           FilesOK', SnapsSound', LinksWhole',
           \A n \in Name \ {File(j)} : part'[n] = part[n],
           \A n \in Name : snap[n] # Absent => snap'[n] # Absent
    PROVE  IInv'
<1>1. BoxOK' /\ now \in Time
  BY StepFacts, BoxKept DEF BoxOK
<1>2. /\ JobsOK' /\ PoolOK'
      /\ job'[j].pc = "loop" /\ job'[j].todo \subseteq job[j].todo
      /\ \A k \in Jobs \ {j} : job'[k] = job[k] /\ pool'[k] = pool[k]
  BY <1>1, StepFacts, EndEntryFacts
<1>3. PassInv(j)'
  BY <1>2, StepFacts DEF PassInv, Offered, envVars, Steps
<1>4. Local(j)
  BY <1>2 DEF Local, envVars
<1>. QED  BY <1>1, <1>2, <1>3, <1>4, AfterStep

\* A step of the loop of handle that opens nothing: entries are only taken off
\* the list, or the pass is over.
LEMMA LoopStep ==
    ASSUME IInv, NEW j \in Jobs, NEW r \in Job,
           job' = [job EXCEPT ![j] = r], r.pc \in {"loop", "done"},
           r.todo \subseteq Offered(j),
           UNCHANGED <<envVars, pool, fileVars>>,
           NoEvent \/ \E kind : Inject(kind)
    PROVE  IInv'
<1>1. BoxOK /\ JobsOK /\ PoolOK /\ FilesOK /\ SnapsSound /\ LinksWhole
  BY TypeParts DEF IInv
<1>2. BoxOK'
  BY <1>1, BoxKept
<1>3. job'[j] = r /\ \A k \in Jobs \ {j} : job'[k] = job[k]
  BY <1>1 DEF JobsOK
<1>4. JobsOK'
  <2>1. job' \in [Jobs -> Job]
    BY <1>1 DEF JobsOK
  <2>. QED  BY <1>1, <1>3, <2>1 DEF JobsOK, Steps
<1>5. PoolOK' /\ FilesOK' /\ SnapsSound' /\ LinksWhole'
  BY <1>1 DEF PoolOK, FilesOK, SnapsSound, LinksWhole, Sound, fileVars
<1>6. PassInv(j)'
  BY <1>3 DEF PassInv, Offered, Steps, envVars
<1>7. Local(j) /\ part' = part
  BY <1>3 DEF Local, envVars, fileVars
<1>. QED  BY <1>2, <1>4, <1>5, <1>6, <1>7, AfterStep

\* compressFile is over, with or without an error: a stream whose last bytes
\* were lost is sound for a compressed snapshot only if closing may fail.
LEMMA ZippedStep ==
    ASSUME IInv, NEW j \in Jobs, FailGzip(j) \/ LoseTail(j)
    PROVE  IInv'
<1>1. /\ job[j].pc \in {"gzip", "zipping"} /\ job[j].pc \in Steps
      /\ UNCHANGED <<envVars, pool, fileVars>>
      /\ \E kind : Inject(kind)
  BY DEF FailGzip, LoseTail, Steps
<1>2. PICK b \in BOOLEAN :
        /\ job' = [job EXCEPT ![j].pc = "drop", ![j].ok = b]
        /\ b => job[j].pc = "zipping" /\ "close" \in Events
  BY DEF FailGzip, LoseTail, Inject
<1> DEFINE r == [job[j] EXCEPT !.pc = "drop", !.ok = b]
<1>3. BoxOK'
  BY <1>1, StepFacts, BoxKept
<1>4. r \in Job /\ r.pc = "drop" /\ r.ok = b /\ r.cur = job[j].cur
      /\ r.at = job[j].at /\ r.todo = job[j].todo
  <2>1. job[j] \in Job
    BY <1>1, StepFacts DEF JobsOK
  <2>. QED  BY <2>1 DEF Job, Steps
<1>5. job' = [job EXCEPT ![j] = r]
  BY <1>2
<1>6. JobsOK' /\ job'[j] = r /\ \A k \in Jobs \ {j} : job'[k] = job[k]
  <2>. HIDE DEF r
  <2>1. job' \in [Jobs -> Job] /\ job'[j] = r
    BY <1>1, <1>4, <1>5, StepFacts DEF JobsOK
  <2>. QED  BY <1>1, <1>4, <1>5, <2>1, StepFacts DEF JobsOK
<1>7. PoolOK' /\ FilesOK' /\ SnapsSound' /\ LinksWhole'
  BY <1>1, StepFacts
     DEF PoolOK, FilesOK, SnapsSound, LinksWhole, Sound, fileVars
<1>8. PassInv(j)'
  <2>. HIDE DEF r
  <2>1. File(j)' = File(j) /\ cur(j)' = cur(j) /\ cur(j).gz
    BY <1>1, <1>4, <1>6, StepFacts DEF File, cur, PassInv
  <2>2. b => Sound(File(j), part[File(j)])'
    BY <1>1, <1>2, <2>1, StepFacts DEF Sound, PassInv, fileVars
  <2>3. /\ job'[j].todo \subseteq Offered(j)' /\ job'[j].cur \in Offered(j)'
        /\ (pool[j][cur(j).src] # Absent)'
    BY <1>1, <1>4, <1>6, <2>1, StepFacts DEF PassInv, Offered, envVars
  <2>. QED  BY <1>4, <1>6, <2>1, <2>2, <2>3 DEF PassInv, Steps
<1>9. Local(j)
  BY <1>1, <1>6 DEF Local, envVars, fileVars
<1>. QED  BY <1>1, <1>3, <1>6, <1>7, <1>8, <1>9, AfterStep

\* The rename to the final name keeps the invariant: what is promoted is sound,
\* so what stands under a final name stays sound (handleUncompressed, 5b).
LEMMA PromoteStep ==
    ASSUME IInv, NEW j \in Jobs, Promote(j)
    PROVE  IInv'
<1>1. job[j].pc = "promote" /\ job[j].pc \in Steps
  BY DEF Promote, Steps
<1>2. Sound(File(j), part[File(j)])
  BY <1>1, StepFacts DEF PassInv
<1>3. snap' = [snap EXCEPT ![File(j)] = part[File(j)]]
  BY DEF Promote
<1>4. part' = [part EXCEPT ![File(j)] = Absent]
  BY DEF Promote
<1>5. BoxOK'
  BY <1>1, StepFacts, BoxKept DEF Promote
<1>6. FilesOK' /\ SnapsSound' /\ LinksWhole'
  <2>1. FilesOK'
    BY <1>1, <1>3, <1>4, StepFacts DEF FilesOK, Promote
  <2>2. SnapsSound'
    BY <1>1, <1>2, <1>3, StepFacts DEF SnapsSound, Sound, FilesOK
  <2>3. LinksWhole'
    BY <1>1, StepFacts DEF LinksWhole, Promote
  <2>. QED  BY <2>1, <2>2, <2>3
<1>7. /\ JobsOK' /\ PoolOK'
      /\ \A k \in Jobs \ {j} : job'[k] = job[k] /\ pool'[k] = pool[k]
      /\ PassInv(j)'
  <2>1. CASE cur(j).gz
    <3>1. EndEntry(j, FALSE)
      BY <2>1 DEF Promote
    <3>2. now \in Time
      BY <1>1, StepFacts DEF BoxOK
    <3>3. /\ JobsOK' /\ PoolOK'
          /\ job'[j].pc = "loop" /\ job'[j].todo \subseteq job[j].todo
          /\ \A k \in Jobs \ {j} : job'[k] = job[k] /\ pool'[k] = pool[k]
      BY <1>1, <3>1, <3>2, StepFacts, EndEntryFacts
    <3>4. PassInv(j)'
      BY <1>1, <3>3, StepFacts DEF PassInv, Offered, Promote, envVars, Steps
    <3>. QED  BY <3>3, <3>4
  <2>2. CASE ~cur(j).gz
    <3>1. Goto(j, "unlink") /\ pool' = pool
      BY <2>2 DEF Promote
    <3>2. /\ JobsOK' /\ job'[j].pc = "unlink" /\ job'[j].cur = job[j].cur
          /\ job'[j].at = job[j].at /\ job'[j].todo = job[j].todo
          /\ \A k \in Jobs \ {j} : job'[k] = job[k]
      BY <1>1, <3>1, StepFacts, GotoFacts DEF PCs, Steps
    <3>3. File(j)' = File(j) /\ cur(j)' = cur(j)
      BY <3>2 DEF File, cur
    <3>4. snap'[File(j)] # Absent
      BY <1>1, <1>2, <1>3, StepFacts DEF FilesOK, Sound
    <3>5. PassInv(j)'
      BY <1>1, <2>2, <3>1, <3>2, <3>3, <3>4, StepFacts
         DEF PassInv, Offered, Promote, envVars, Steps
    <3>. QED  BY <1>1, <3>1, <3>2, <3>5, StepFacts DEF PoolOK
  <2>. QED  BY <2>1, <2>2
<1>8. Local(j)
  BY <1>1, <1>2, <1>3, <1>4, <1>7, StepFacts
     DEF Local, Promote, envVars, FilesOK, Sound
<1>. QED  BY <1>1, <1>5, <1>6, <1>7, <1>8, AfterStep

\* The start of a pass keeps the invariant: what it visits is in the box.
LEMMA FireStep ==
    ASSUME IInv, NEW j \in Jobs, Fire(j)
    PROVE  IInv'
<1>1. PICK bad \in SUBSET Dirs :
        /\ IF bad = {} THEN NoEvent ELSE Inject("scan")
        /\ job' = [job EXCEPT ![j] =
                    [IdleJob EXCEPT !.pc = "loop", !.at = now,
                                    !.took = config[j], !.todo = config[j],
                                    !.since = spent,
                                    !.seen = Scan(config[j], bad)]]
  BY DEF Fire
<1> DEFINE r == [IdleJob EXCEPT !.pc = "loop", !.at = now,
                                !.took = config[j], !.todo = config[j],
                                !.since = spent, !.seen = Scan(config[j], bad)]
<1>2. now \in Time /\ spent \in 0 .. MaxEvents /\ config \in Configs
  BY DEF IInv, TypeOK
<1>3. config[j] \subseteq Entries
  BY <1>2 DEF Entries
<1>4. config[j] \subseteq Offered(j)
  BY <1>2, <1>3 DEF Offered
<1>5. Scan(config[j], bad) \in [IDs -> Time \cup {Absent}]
  BY ScanType
<1>6. r \in Job /\ r.pc = "loop" /\ r.todo = config[j]
  BY <1>2, <1>3, <1>5 DEF Job, IdleJob, Content, Partial
<1>7. NoEvent \/ \E kind : Inject(kind)
  BY <1>1
<1>8. UNCHANGED <<envVars, pool, fileVars>>
  BY DEF Fire
<1>. QED
  <2>1. job' = [job EXCEPT ![j] = r]
    BY <1>1
  <2>. HIDE DEF r
  <2>. QED  BY <1>4, <1>6, <1>7, <1>8, <2>1, LoopStep

\* Skipping or refusing an entry and ending or aborting the pass keep it.
LEMMA LoopSteps ==
    ASSUME IInv, NEW j \in Jobs,
           \/ AbortPass(j) \/ EndPass(j)
           \/ \E e \in job[j].todo : SkipEntry(j, e) \/ RefuseEntry(j, e)
    PROVE  IInv'
<1>1. /\ job[j].pc = "loop" /\ UNCHANGED <<envVars, pool, fileVars>>
      /\ NoEvent \/ \E kind : Inject(kind)
  BY DEF AbortPass, EndPass, SkipEntry, RefuseEntry, Visiting
<1>2. job[j] \in Job /\ job[j].todo \subseteq Offered(j)
  BY DEF IInv, TypeOK, PassInv
<1>3. \E r \in Job : /\ job' = [job EXCEPT ![j] = r]
                      /\ r.pc \in {"loop", "done"}
                      /\ r.todo \subseteq job[j].todo
  <2>1. CASE AbortPass(j)
    <3> DEFINE r == [job[j] EXCEPT !.pc = "done", !.todo = {}, !.failed = TRUE]
    <3>1. r \in Job /\ r.pc = "done" /\ r.todo = {}
      BY <1>2 DEF Job, Resting
    <3>2. job' = [job EXCEPT ![j] = r]
      BY <2>1 DEF AbortPass
    <3>. HIDE DEF r
    <3>. QED  BY <3>1, <3>2
  <2>2. CASE EndPass(j)
    <3> DEFINE r == [job[j] EXCEPT !.pc = "done"]
    <3>1. r \in Job /\ r.pc = "done" /\ r.todo = job[j].todo
      BY <1>2 DEF Job, Resting
    <3>2. job' = [job EXCEPT ![j] = r]
      BY <2>2 DEF EndPass, Goto
    <3>. HIDE DEF r
    <3>. QED  BY <3>1, <3>2
  <2>3. CASE \E e \in job[j].todo : SkipEntry(j, e)
    <3>1. PICK e \in job[j].todo : SkipEntry(j, e)
      BY <2>3
    <3> DEFINE r == [job[j] EXCEPT !.todo = @ \ {e}]
    <3>2. r \in Job /\ r.pc = "loop" /\ r.todo \subseteq job[j].todo
      BY <1>1, <1>2 DEF Job
    <3>3. job' = [job EXCEPT ![j] = r]
      BY <3>1 DEF SkipEntry
    <3>. HIDE DEF r
    <3>. QED  BY <3>2, <3>3
  <2>4. CASE \E e \in job[j].todo : RefuseEntry(j, e)
    <3>1. PICK e \in job[j].todo : RefuseEntry(j, e)
      BY <2>4
    <3> DEFINE r == [job[j] EXCEPT !.todo = @ \ {e}, !.failed = TRUE]
    <3>2. r \in Job /\ r.pc = "loop" /\ r.todo \subseteq job[j].todo
      BY <1>1, <1>2 DEF Job
    <3>3. job' = [job EXCEPT ![j] = r]
      BY <3>1 DEF RefuseEntry
    <3>. HIDE DEF r
    <3>. QED  BY <3>2, <3>3
  <2>. QED  BY <2>1, <2>2, <2>3, <2>4
<1>. QED  BY <1>1, <1>2, <1>3, LoopStep

\* Taking the pooled connection of a due entry keeps it: the entry that is
\* copied from then on is one of those the pass read (poolConn).
LEMMA OpenStep ==
    ASSUME IInv, NEW j \in Jobs, NEW e \in job[j].todo, OpenSource(j, e)
    PROVE  IInv'
<1> DEFINE r == [job[j] EXCEPT !.pc = "copy", !.cur = e]
           c == [file |-> Live, used |-> now]
<1>1. /\ BoxOK /\ JobsOK /\ PoolOK /\ FilesOK /\ SnapsSound /\ LinksWhole
      /\ PassInv(j) /\ now \in Time
  BY TypeParts DEF IInv, BoxOK
<1>2. e \in Offered(j) /\ e \in Entries /\ Active(e)
  BY <1>1 DEF PassInv, Offered, OpenSource
<1>3. e.src \in Sources
  BY <1>2, EntryTypes
<1>4. r \in Job /\ r.pc = "copy" /\ r.cur = e /\ r.todo = job[j].todo
  BY <1>1, <1>2 DEF JobsOK, Job, Steps
<1>5. job' = [job EXCEPT ![j] = r]
  BY DEF OpenSource
<1>6. JobsOK' /\ job'[j] = r /\ \A k \in Jobs \ {j} : job'[k] = job[k]
  <2>. HIDE DEF r
  <2>1. job' \in [Jobs -> Job] /\ job'[j] = r
    BY <1>1, <1>4, <1>5 DEF JobsOK
  <2>. QED  BY <1>1, <1>2, <1>4, <1>5, <2>1 DEF JobsOK
<1>7. PoolOK' /\ pool'[j][e.src] # Absent
      /\ \A k \in Jobs \ {j} : pool'[k] = pool[k]
  <2>1. CASE pool[j][e.src] = Absent
    <3>1. c \in Conn
      BY <1>1 DEF Conn
    <3>2. pool' = [pool EXCEPT ![j][e.src] = c]
      BY <2>1 DEF OpenSource
    <3>3. c # Absent
      BY <1>1, <1>3, <2>1, <3>1, AbsentAssumption DEF PoolOK
    <3>. HIDE DEF c
    <3>. QED  BY <1>1, <1>3, <3>1, <3>2, <3>3 DEF PoolOK
  <2>2. CASE pool[j][e.src] # Absent
    BY <1>1, <2>2 DEF OpenSource, PoolOK
  <2>. QED  BY <2>1, <2>2
<1>8. UNCHANGED <<envVars, fileVars>> /\ NoEvent
  BY DEF OpenSource
<1>9. BoxOK' /\ FilesOK' /\ SnapsSound' /\ LinksWhole'
  BY <1>1, <1>8, BoxKept DEF FilesOK, SnapsSound, LinksWhole, Sound, fileVars
<1>10. PassInv(j)'
  <2>. HIDE DEF r
  <2>1. cur(j)' = e
    BY <1>4, <1>6 DEF cur
  <2>. QED  BY <1>1, <1>2, <1>4, <1>6, <1>7, <1>8, <2>1
            DEF PassInv, Offered, envVars, Steps
<1>11. Local(j) /\ part' = part
  BY <1>6, <1>7, <1>8 DEF Local, envVars, fileVars
<1>. QED  BY <1>6, <1>7, <1>9, <1>10, <1>11, AfterStep

\* A step of a pass that stays with its entry: what it leaves of the invariant
\* to be shown is what it does to the files and what the pass then knows.
LEMMA Within ==
    ASSUME IInv, NEW j \in Jobs, job[j].pc \in Steps, NEW r \in Job,
           job' = [job EXCEPT ![j] = r], r.pc \in Steps,
           r.cur = job[j].cur, r.at = job[j].at, r.todo = job[j].todo,
           UNCHANGED <<envVars, pool>>, NoEvent \/ \E kind : Inject(kind),
           FilesOK', SnapsSound', LinksWhole',
           \A n \in Name \ {File(j)} : part'[n] = part[n],
           \A n \in Name : snap[n] # Absent => snap'[n] # Absent,
           r.pc \in {"dropFailed", "gzip", "zipping", "drop"} => cur(j).gz,
           r.pc \in {"unlink", "link", "swap"} => ~cur(j).gz,
           r.pc \in {"gzip", "zipping"} => r.got.whole,
           r.pc = "zipping" => part'[File(j)] # Absent,
           r.pc = "promote" \/ (r.pc = "drop" /\ r.ok)
                => Sound(File(j), part'[File(j)]),
           r.pc \in {"unlink", "link"} => snap'[File(j)] # Absent
    PROVE  IInv'
<1>1. BoxOK' /\ PoolOK'
  BY StepFacts, BoxKept DEF PoolOK
<1>2. job'[j] = r /\ \A k \in Jobs \ {j} : job'[k] = job[k]
  BY StepFacts DEF JobsOK
<1>3. JobsOK'
  <2>1. job' \in [Jobs -> Job]
    BY StepFacts DEF JobsOK
  <2>. QED  BY <1>2, <2>1, StepFacts DEF JobsOK
<1>4. cur(j)' = cur(j) /\ File(j)' = File(j) /\ Offered(j)' = Offered(j)
  BY <1>2 DEF cur, File, Offered, envVars
<1>5. PassInv(j)'
  <2>1. Sound(File(j), part[File(j)])' <=> Sound(File(j), part'[File(j)])
    BY <1>4 DEF Sound
  <2>2. (pool[j][cur(j).src] # Absent)'
    BY <1>4, StepFacts
  <2>3. job'[j].todo \subseteq Offered(j) /\ job'[j].cur \in Offered(j)
    BY <1>2, StepFacts DEF PassInv
  <2>. QED  BY <1>2, <1>4, <2>1, <2>2, <2>3 DEF PassInv
<1>6. Local(j)
  BY <1>2 DEF Local, envVars
<1>. QED  BY <1>1, <1>3, <1>5, <1>6, AfterStep

\* What a step that leaves the files alone, but for one .tmp, does to them.
LEMMA OnlyPart ==
    ASSUME FilesOK, SnapsSound, LinksWhole, NEW n \in Name,
           NEW f \in Content \cup {Absent}, part' = [part EXCEPT ![n] = f],
           UNCHANGED <<snap, ltmp, link>>,
           staged' \in SUBSET (Jobs \X IDs \X Time)
    PROVE  /\ FilesOK' /\ SnapsSound' /\ LinksWhole'
           /\ part'[n] = f /\ \A m \in Name \ {n} : part'[m] = part[m]
           /\ \A m \in Name : snap[m] # Absent => snap'[m] # Absent
BY DEF FilesOK, SnapsSound, LinksWhole, Sound

\* A step that leaves every .tmp alone: only a dump comes or goes.
LEMMA OnlyStaged ==
    ASSUME FilesOK, SnapsSound, LinksWhole, UNCHANGED <<part, snap, ltmp, link>>,
           staged' \in SUBSET (Jobs \X IDs \X Time)
    PROVE  /\ FilesOK' /\ SnapsSound' /\ LinksWhole'
           /\ \A m \in Name : snap[m] # Absent => snap'[m] # Absent
BY DEF FilesOK, SnapsSound, LinksWhole, Sound

\* What is read from a source is a set of times.
LEMMA ReadType ==
    ASSUME TypeOK, NEW j \in Jobs, NEW s \in Sources, pool[j][s] # Absent
    PROVE  Read(j, s) \in SUBSET Time
BY DEF TypeOK, Read, Conn

\* The record of a pass that goes on with a dump.
Dumped(q, l, g) == [q EXCEPT !.pc = l, !.got = g]

\* What the record of a pass is once its copy has been made.
LEMMA DumpedFacts ==
    ASSUME NEW q \in Job, NEW l \in PCs, NEW g \in Content
    PROVE  /\ Dumped(q, l, g) \in Job
           /\ Dumped(q, l, g).pc = l
           /\ Dumped(q, l, g).got = g
           /\ Dumped(q, l, g).cur = q.cur
           /\ Dumped(q, l, g).at = q.at
           /\ Dumped(q, l, g).todo = q.todo
BY DEF Job, PCs, Dumped

\* The first half of Copy keeps the invariant: the staging file is cut.
LEMMA StartCopyStep ==
    ASSUME IInv, NEW j \in Jobs, StartCopy(j)
    PROVE  IInv'
<1> DEFINE g == [data |-> Read(j, cur(j).src), whole |-> FALSE]
           r == Dumped(job[j], "copying", g)
<1>1. job[j].pc \in Steps
  BY DEF StartCopy, Steps
<1>2. Read(j, cur(j).src) \in SUBSET Time
  BY <1>1, StepFacts, ReadType DEF IInv
<1>3. job' = [job EXCEPT ![j] = r]
  BY DEF StartCopy, Dumped
<1>4. /\ r \in Job /\ r.pc = "copying" /\ r.cur = job[j].cur
      /\ r.at = job[j].at /\ r.todo = job[j].todo
  <2>1. g \in Content
    BY <1>2 DEF Content
  <2>2. job[j] \in Job
    BY <1>1, StepFacts DEF JobsOK
  <2>3. "copying" \in PCs /\ "copying" \in Steps
    BY DEF PCs, Steps
  <2>. HIDE DEF g
  <2>. QED  BY <2>1, <2>2, <2>3, DumpedFacts
<1>5. UNCHANGED <<envVars, pool, snap, ltmp, link>> /\ NoEvent
  BY DEF StartCopy
<1>6. /\ FilesOK' /\ SnapsSound' /\ LinksWhole'
      /\ \A n \in Name \ {File(j)} : part'[n] = part[n]
      /\ \A n \in Name : snap[n] # Absent => snap'[n] # Absent
  <2>1. CASE cur(j).gz
    <3>1. staged' = staged \cup {Dump(j)} /\ part' = part
      BY <2>1 DEF StartCopy
    <3>2. staged' \in SUBSET (Jobs \X IDs \X Time)
      BY <1>1, <3>1, StepFacts DEF FilesOK
    <3>. QED  BY <1>1, <1>5, <3>1, <3>2, StepFacts, OnlyStaged
  <2>2. CASE ~cur(j).gz
    <3>1. part' = [part EXCEPT ![File(j)] = Partial] /\ staged' = staged
      BY <2>2 DEF StartCopy
    <3>2. Partial \in Content
      BY DEF Partial, Content
    <3>3. staged' \in SUBSET (Jobs \X IDs \X Time)
      BY <1>1, <3>1, StepFacts DEF FilesOK
    <3>. QED  BY <1>1, <1>5, <3>1, <3>2, <3>3, StepFacts, OnlyPart
  <2>. QED  BY <2>1, <2>2
<1>. QED
  <2>. HIDE DEF r
  <2>. QED  BY <1>1, <1>3, <1>4, <1>5, <1>6, Within DEF Steps

\* The second half of Copy keeps it: a dump that is gzipped, and a plain
\* staging file that is promoted, are whole.
LEMMA FinishCopyStep ==
    ASSUME IInv, NEW j \in Jobs, FinishCopy(j)
    PROVE  IInv'
<1> DEFINE d == IF j \in VacuumJobs THEN job[j].got.data
                                    ELSE Read(j, cur(j).src)
<1>1. job[j].pc \in Steps
  BY DEF FinishCopy, Steps
<1>2. d \in SUBSET Time
  <2>1. Read(j, cur(j).src) \in SUBSET Time
    BY <1>1, StepFacts, ReadType DEF IInv
  <2>2. job[j].got.data \in SUBSET Time
    BY <1>1, StepFacts DEF Content
  <2>. QED  BY <2>1, <2>2
<1>3. Whole(d) \in Content /\ Whole(d).whole
  <2>. HIDE DEF d
  <2>. QED  BY <1>2 DEF Whole, Content
<1>4. UNCHANGED <<envVars, pool, staged, snap, ltmp, link>> /\ NoEvent
  BY DEF FinishCopy
<1>5. staged' \in SUBSET (Jobs \X IDs \X Time)
  BY <1>1, <1>4, StepFacts DEF FilesOK
<1>6. CASE cur(j).gz
  <2> DEFINE r == Dumped(job[j], "gzip", Whole(d))
  <2>1. job' = [job EXCEPT ![j] = r] /\ part' = part
    BY <1>6 DEF FinishCopy, Dumped
  <2>2. /\ r \in Job /\ r.pc = "gzip" /\ r.got.whole
        /\ r.cur = job[j].cur /\ r.at = job[j].at /\ r.todo = job[j].todo
    <3>. HIDE DEF d
    <3>1. job[j] \in Job
      BY <1>1, StepFacts DEF JobsOK
    <3>. QED  BY <1>3, <3>1, DumpedFacts DEF PCs, Steps
  <2>3. /\ FilesOK' /\ SnapsSound' /\ LinksWhole'
        /\ \A n \in Name : snap[n] # Absent => snap'[n] # Absent
    BY <1>1, <1>4, <1>5, <2>1, StepFacts, OnlyStaged
  <2>. HIDE DEF r
  <2>. QED  BY <1>1, <1>4, <1>6, <2>1, <2>2, <2>3, Within DEF Steps
<1>7. CASE ~cur(j).gz
  <2> DEFINE r == [job[j] EXCEPT !.pc = "promote"]
  <2>1. job' = [job EXCEPT ![j] = r]
    BY <1>7 DEF FinishCopy, Goto
  <2>2. part' = [part EXCEPT ![File(j)] = Whole(d)]
    BY <1>7 DEF FinishCopy
  <2>3. /\ r \in Job /\ r.pc = "promote" /\ r.cur = job[j].cur
        /\ r.at = job[j].at /\ r.todo = job[j].todo
    BY <1>1, StepFacts DEF JobsOK, Job, Steps
  <2>4. /\ FilesOK' /\ SnapsSound' /\ LinksWhole'
        /\ part'[File(j)] = Whole(d)
        /\ \A n \in Name \ {File(j)} : part'[n] = part[n]
        /\ \A n \in Name : snap[n] # Absent => snap'[n] # Absent
    <3>. HIDE DEF d
    <3>. QED  BY <1>1, <1>3, <1>4, <1>5, <2>2, StepFacts, OnlyPart
  <2>5. Sound(File(j), part'[File(j)])
    <3>. HIDE DEF d
    <3>. QED  BY <1>3, <2>4, AbsentAssumption DEF Sound
  <2>. HIDE DEF r
  <2>. QED  BY <1>1, <1>4, <1>7, <2>1, <2>3, <2>4, <2>5, Within DEF Steps
<1>. QED  BY <1>6, <1>7

\* The record of a pass that goes to another step of the same entry.
Moved(q, l) == [q EXCEPT !.pc = l]

\* What the record of a pass is once only its control state moved.
LEMMA MovedFacts ==
    ASSUME NEW q \in Job, NEW l \in PCs
    PROVE  /\ Moved(q, l) \in Job /\ Moved(q, l).pc = l
           /\ Moved(q, l).got = q.got /\ Moved(q, l).cur = q.cur
           /\ Moved(q, l).at = q.at /\ Moved(q, l).todo = q.todo
BY DEF Job, PCs, Moved

\* Opening the .tmp of the compression keeps the invariant.
LEMMA StartGzipStep ==
    ASSUME IInv, NEW j \in Jobs, StartGzip(j)
    PROVE  IInv'
<1> DEFINE r == Moved(job[j], "zipping")
<1>1. job[j].pc = "gzip" /\ job[j].pc \in Steps /\ "zipping" \in PCs
  BY DEF StartGzip, Steps, PCs
<1>2. job' = [job EXCEPT ![j] = r] /\ part' = [part EXCEPT ![File(j)] = Partial]
  BY DEF StartGzip, Goto, Moved
<1>3. /\ r \in Job /\ r.pc = "zipping" /\ r.got = job[j].got
      /\ r.cur = job[j].cur /\ r.at = job[j].at /\ r.todo = job[j].todo
  BY <1>1, StepFacts, MovedFacts DEF JobsOK
<1>4. UNCHANGED <<envVars, pool, staged, snap, ltmp, link>> /\ NoEvent
  BY DEF StartGzip
<1>5. Partial \in Content /\ Partial # Absent
  <2>1. Partial \in Content
    BY DEF Partial, Content
  <2>. QED  BY <2>1, AbsentAssumption
<1>6. staged' \in SUBSET (Jobs \X IDs \X Time)
  BY <1>1, <1>4, StepFacts DEF FilesOK
<1>7. /\ FilesOK' /\ SnapsSound' /\ LinksWhole' /\ part'[File(j)] = Partial
      /\ \A n \in Name \ {File(j)} : part'[n] = part[n]
      /\ \A n \in Name : snap[n] # Absent => snap'[n] # Absent
  BY <1>1, <1>2, <1>4, <1>5, <1>6, StepFacts, OnlyPart
<1>8. cur(j).gz /\ job[j].got.whole
  BY <1>1, StepFacts DEF PassInv
<1>. QED
  <2>. HIDE DEF r
  <2>. QED  BY <1>1, <1>2, <1>3, <1>4, <1>5, <1>7, <1>8, Within DEF Steps

\* The record of a pass whose dump was compressed.
Zipped(q) == [q EXCEPT !.pc = "drop", !.ok = TRUE]

\* What the record of a pass is once its compression ended well.
LEMMA ZippedFacts ==
    ASSUME NEW q \in Job
    PROVE  /\ Zipped(q) \in Job /\ Zipped(q).pc = "drop"
           /\ Zipped(q).cur = q.cur /\ Zipped(q).at = q.at
           /\ Zipped(q).todo = q.todo
BY DEF Job, Steps, Zipped

\* The end of the compression keeps it: only a failed close leaves the
\* stream of a whole dump cut (compressFile).
LEMMA FinishGzipStep ==
    ASSUME IInv, NEW j \in Jobs, FinishGzip(j)
    PROVE  IInv'
<1> DEFINE r == Zipped(job[j])
<1>1. job[j].pc = "zipping" /\ job[j].pc \in Steps
  BY DEF FinishGzip, Steps
<1>2. /\ job' = [job EXCEPT ![j] = r]
      /\ part' = [part EXCEPT ![File(j)] = job[j].got]
  BY DEF FinishGzip, Zipped
<1>3. job[j] \in Job /\ job[j].got \in Content /\ job[j].got.whole /\ cur(j).gz
  BY <1>1, StepFacts DEF PassInv, JobsOK
<1>4. /\ r \in Job /\ r.pc = "drop"
      /\ r.cur = job[j].cur /\ r.at = job[j].at /\ r.todo = job[j].todo
  BY <1>3, ZippedFacts
<1>5. UNCHANGED <<envVars, pool, staged, snap, ltmp, link>> /\ NoEvent
  BY DEF FinishGzip
<1>6. staged' \in SUBSET (Jobs \X IDs \X Time)
  BY <1>1, <1>5, StepFacts DEF FilesOK
<1>7. /\ FilesOK' /\ SnapsSound' /\ LinksWhole' /\ part'[File(j)] = job[j].got
      /\ \A n \in Name \ {File(j)} : part'[n] = part[n]
      /\ \A n \in Name : snap[n] # Absent => snap'[n] # Absent
  BY <1>1, <1>2, <1>3, <1>5, <1>6, StepFacts, OnlyPart
<1>8. Sound(File(j), part'[File(j)])
  BY <1>3, <1>7, AbsentAssumption DEF Sound
<1>. QED
  <2>. HIDE DEF r
  <2>. QED  BY <1>1, <1>2, <1>3, <1>4, <1>5, <1>7, <1>8, Within DEF Steps

\* Removing the dump keeps it: no pass knows anything about the dumps but
\* the one that copies.
LEMMA DropDumpStep ==
    ASSUME IInv, NEW j \in Jobs, DropDump(j)
    PROVE  IInv'
<1>1. /\ job[j].pc \in {"dropFailed", "drop"} /\ job[j].pc \in Steps
      /\ NoEvent \/ \E kind : Inject(kind)
      /\ UNCHANGED <<envVars, part, snap, ltmp, link>>
      /\ staged' \subseteq staged
  BY DEF DropDump, Steps
<1>2. staged' \in SUBSET (Jobs \X IDs \X Time)
  BY <1>1, StepFacts DEF FilesOK
<1>3. /\ FilesOK' /\ SnapsSound' /\ LinksWhole'
      /\ \A n \in Name : snap[n] # Absent => snap'[n] # Absent
  BY <1>1, <1>2, StepFacts, OnlyStaged
<1>4. CASE job[j].pc = "dropFailed"
  <2>1. EndEntry(j, TRUE)
    BY <1>4 DEF DropDump
  <2>. QED  BY <1>1, <1>3, <2>1, EndStep
<1>5. CASE job[j].pc = "drop"
  <2> DEFINE l == IF job[j].ok THEN "promote" ELSE "discard"
             r == Moved(job[j], l)
  <2>1. job' = [job EXCEPT ![j] = r] /\ UNCHANGED pool
    BY <1>5 DEF DropDump, Goto, Moved
  <2>2. l \in PCs /\ l \in {"promote", "discard"} /\ (l = "promote" => job[j].ok)
    BY DEF PCs, Steps
  <2>3. /\ r \in Job /\ r.pc = l
        /\ r.cur = job[j].cur /\ r.at = job[j].at /\ r.todo = job[j].todo
    <3>. HIDE DEF l
    <3>. QED  BY <1>1, <2>2, StepFacts, MovedFacts DEF JobsOK
  <2>4. l = "promote" => Sound(File(j), part'[File(j)])
    <3>. HIDE DEF l
    <3>. QED  BY <1>1, <1>5, <2>2, StepFacts DEF PassInv
  <2>. HIDE DEF l, r
  <2>. QED  BY <1>1, <1>3, <2>1, <2>2, <2>3, <2>4, Within DEF Steps
<1>. QED  BY <1>1, <1>4, <1>5

\* Removing a failed staging file keeps it: nobody is about to promote it.
LEMMA DiscardStep ==
    ASSUME IInv, NEW j \in Jobs, Discard(j)
    PROVE  IInv'
<1>1. /\ job[j].pc \in Steps /\ EndEntry(j, TRUE)
      /\ NoEvent \/ \E kind : Inject(kind)
      /\ UNCHANGED <<envVars, staged, snap, ltmp, link>>
      /\ part' = [part EXCEPT ![File(j)] = Absent] \/ part' = part
  BY DEF Discard, Steps
<1>2. staged' \in SUBSET (Jobs \X IDs \X Time)
  BY <1>1, StepFacts DEF FilesOK
<1>3. /\ FilesOK' /\ SnapsSound' /\ LinksWhole'
      /\ \A n \in Name \ {File(j)} : part'[n] = part[n]
      /\ \A n \in Name : snap[n] # Absent => snap'[n] # Absent
  <2>1. CASE part' = part
    BY <1>1, <1>2, <2>1, StepFacts, OnlyStaged
  <2>2. CASE part' = [part EXCEPT ![File(j)] = Absent]
    BY <1>1, <1>2, <2>2, StepFacts, OnlyPart
  <2>. QED  BY <1>1, <2>1, <2>2
<1>. QED  BY <1>1, <1>3, EndStep

\* What a step does that changes a link only.
LEMMA OnlyLinks ==
    ASSUME FilesOK, SnapsSound, LinksWhole, UNCHANGED <<staged, part, snap>>,
           NEW p \in Place, NEW f \in Linked \cup {Absent},
           NEW g \in Linked \cup {Absent},
           f # Absent => f.file.whole, g # Absent => g.file.whole,
           ltmp' = [ltmp EXCEPT ![p] = f] \/ ltmp' = ltmp,
           link' = [link EXCEPT ![p] = g] \/ link' = link
    PROVE  /\ FilesOK' /\ SnapsSound' /\ LinksWhole'
           /\ \A n \in Name : part'[n] = part[n]
           /\ \A n \in Name : snap[n] # Absent => snap'[n] # Absent
<1>1. FilesOK'
  BY DEF FilesOK
<1>2. LinksWhole'
  BY DEF LinksWhole, FilesOK
<1>3. SnapsSound'
  BY DEF SnapsSound, Sound
<1>. QED  BY <1>1, <1>2, <1>3

\* Removing a leftover .tmp link keeps it.
LEMMA RemoveStaleLinkStep ==
    ASSUME IInv, NEW j \in Jobs, RemoveStaleLink(j)
    PROVE  IInv'
<1> DEFINE r == Moved(job[j], "link")
<1>1. /\ job[j].pc = "unlink" /\ job[j].pc \in Steps /\ "link" \in PCs
      /\ NoEvent \/ \E kind : Inject(kind)
      /\ UNCHANGED <<envVars, pool, staged, part, snap, link>>
      /\ ltmp' = [ltmp EXCEPT ![At(j)] = Absent] \/ ltmp' = ltmp
  BY DEF RemoveStaleLink, Steps, PCs
<1>2. job' = [job EXCEPT ![j] = r]
  BY DEF RemoveStaleLink, Goto, Moved
<1>3. /\ r \in Job /\ r.pc = "link"
      /\ r.cur = job[j].cur /\ r.at = job[j].at /\ r.todo = job[j].todo
  BY <1>1, StepFacts, MovedFacts DEF JobsOK
<1>4. /\ FilesOK' /\ SnapsSound' /\ LinksWhole'
      /\ \A n \in Name : part'[n] = part[n]
      /\ \A n \in Name : snap[n] # Absent => snap'[n] # Absent
  BY <1>1, StepFacts, OnlyLinks
<1>5. ~cur(j).gz /\ snap'[File(j)] # Absent
  BY <1>1, StepFacts DEF PassInv
<1>. QED
  <2>. HIDE DEF r
  <2>. QED  BY <1>1, <1>2, <1>3, <1>4, <1>5, Within DEF Steps

\* The link to the new snapshot keeps it: a plain snapshot under a final name
\* is whole, and so is what the link names.
LEMMA MakeLinkStep ==
    ASSUME IInv, NEW j \in Jobs, MakeLink(j)
    PROVE  IInv'
<1> DEFINE r == Moved(job[j], "swap")
           f == [at |-> job[j].at, file |-> snap[File(j)]]
<1>1. /\ job[j].pc = "link" /\ job[j].pc \in Steps /\ "swap" \in PCs
      /\ NoEvent
      /\ UNCHANGED <<envVars, pool, staged, part, snap, link>>
      /\ ltmp' = [ltmp EXCEPT ![At(j)] = f]
  BY DEF MakeLink, Steps, PCs
<1>2. job' = [job EXCEPT ![j] = r]
  BY DEF MakeLink, Goto, Moved
<1>3. /\ r \in Job /\ r.pc = "swap"
      /\ r.cur = job[j].cur /\ r.at = job[j].at /\ r.todo = job[j].todo
  BY <1>1, StepFacts, MovedFacts DEF JobsOK
<1>4. ~cur(j).gz /\ snap[File(j)] # Absent
  BY <1>1, StepFacts DEF PassInv
<1>5. snap[File(j)] \in Content /\ snap[File(j)].whole
  BY <1>1, <1>4, StepFacts DEF FilesOK, SnapsSound, Sound
<1>6. f \in Linked /\ f.file.whole
  BY <1>1, <1>5, StepFacts DEF Linked
<1>7. /\ FilesOK' /\ SnapsSound' /\ LinksWhole'
      /\ \A n \in Name : part'[n] = part[n]
      /\ \A n \in Name : snap[n] # Absent => snap'[n] # Absent
  <2>. HIDE DEF f
  <2>. QED  BY <1>1, <1>6, StepFacts, OnlyLinks
<1>. QED
  <2>. HIDE DEF r, f
  <2>. QED  BY <1>1, <1>2, <1>3, <1>4, <1>7, Within DEF Steps

\* The rename over latest-<id> keeps it.
LEMMA SwapLinkStep ==
    ASSUME IInv, NEW j \in Jobs, SwapLink(j)
    PROVE  IInv'
<1>1. /\ job[j].pc \in Steps /\ EndEntry(j, FALSE) /\ NoEvent
      /\ UNCHANGED <<envVars, staged, part, snap>>
      /\ link' = [link EXCEPT ![At(j)] = ltmp[At(j)]]
      /\ ltmp' = [ltmp EXCEPT ![At(j)] = Absent]
  BY DEF SwapLink, Steps
<1>2. ltmp[At(j)] \in Linked \cup {Absent}
  BY <1>1, StepFacts DEF FilesOK
<1>3. ltmp[At(j)] # Absent => ltmp[At(j)].file.whole
  BY <1>1, StepFacts DEF LinksWhole
<1>4. /\ FilesOK' /\ SnapsSound' /\ LinksWhole'
      /\ \A n \in Name : part'[n] = part[n]
      /\ \A n \in Name : snap[n] # Absent => snap'[n] # Absent
  BY <1>1, <1>2, <1>3, StepFacts, OnlyLinks
<1>. QED  BY <1>1, <1>4, EndStep

\* A failing call of linkLatest keeps it.
LEMMA FailLinkStep ==
    ASSUME IInv, NEW j \in Jobs, FailLink(j)
    PROVE  IInv'
<1>1. /\ job[j].pc \in Steps /\ EndEntry(j, TRUE)
      /\ NoEvent \/ \E kind : Inject(kind)
      /\ UNCHANGED <<envVars, fileVars>>
  BY DEF FailLink, Steps
<1>2. staged' \in SUBSET (Jobs \X IDs \X Time) /\ UNCHANGED <<part, snap, ltmp, link>>
  BY <1>1, StepFacts DEF FilesOK, fileVars
<1>3. FilesOK' /\ SnapsSound' /\ LinksWhole'
  BY <1>1, <1>2, StepFacts, OnlyStaged
<1>. QED  BY <1>1, <1>2, <1>3, EndStep

(***************************************************************************)
(* The steps of the environment.                                           *)
(***************************************************************************)

\* A step that leaves the passes and the files alone, but may change the box
\* and close or freeze connections that no pass holds.
LEMMA OutsideStep ==
    ASSUME IInv, BoxOK', PoolOK', UNCHANGED <<job, fileVars>>,
           config' = config \/ "reload" \in Events,
           \A j \in Jobs : job[j].pc \in Steps => pool'[j][cur(j).src] # Absent
    PROVE  IInv'
<1>1. JobsOK /\ FilesOK /\ SnapsSound /\ LinksWhole
  BY TypeParts DEF IInv
<1>2. JobsOK' /\ FilesOK' /\ SnapsSound' /\ LinksWhole'
  BY <1>1 DEF JobsOK, FilesOK, SnapsSound, LinksWhole, Sound, fileVars
<1>3. ASSUME NEW j \in Jobs PROVE PassInv(j)'
  <2>1. PassInv(j)
    BY DEF IInv
  <2>2. Offered(j) \subseteq Offered(j)'
    BY DEF Offered
  <2>3. cur(j)' = cur(j) /\ File(j)' = File(j) /\ part' = part /\ snap' = snap
    BY DEF cur, File, fileVars
  <2>4. Sound(File(j), part[File(j)])' <=> Sound(File(j), part[File(j)])
    BY <2>3 DEF Sound
  <2>. QED  BY <2>1, <2>2, <2>3, <2>4 DEF PassInv
<1>4. TypeOK'
  BY <1>2 DEF TypeOK, BoxOK, JobsOK, PoolOK, FilesOK
<1>. QED  BY <1>2, <1>3, <1>4 DEF IInv

\* The state of an engine that has not been fired.
LEMMA IdleType == IdleJob \in Job
BY BoundsAssumption
   DEF IdleJob, Job, Resting, Time, Content, Partial

\* A pass that is cancelled in Copy keeps it.
LEMMA CancelStep ==
    ASSUME IInv, NEW j \in Jobs, Cancel(j)
    PROVE  IInv'
<1> DEFINE r == [job[j] EXCEPT !.cancelled = TRUE]
<1>1. BoxOK /\ JobsOK /\ PoolOK /\ FilesOK /\ SnapsSound /\ LinksWhole
  BY TypeParts DEF IInv
<1>2. /\ job' = [job EXCEPT ![j] = r]
      /\ UNCHANGED <<envVars, pool, fileVars>> /\ Inject("cancel")
  BY DEF Cancel
<1>3. /\ r \in Job /\ r.pc = job[j].pc /\ r.got = job[j].got
      /\ r.cur = job[j].cur /\ r.at = job[j].at /\ r.todo = job[j].todo
      /\ r.ok = job[j].ok
  BY <1>1 DEF JobsOK, Job
<1>4. job' \in [Jobs -> Job] /\ job'[j] = r /\ \A k \in Jobs \ {j} : job'[k] = job[k]
  <2>. HIDE DEF r
  <2>. QED  BY <1>1, <1>2, <1>3 DEF JobsOK
<1> HIDE DEF r
<1>5. BoxOK'
  BY <1>1, <1>2, BoxKept
<1>6. JobsOK'
  BY <1>1, <1>3, <1>4 DEF JobsOK
<1>7. PoolOK' /\ FilesOK' /\ SnapsSound' /\ LinksWhole'
  BY <1>1, <1>2 DEF PoolOK, FilesOK, SnapsSound, LinksWhole, Sound, fileVars
<1>8. PassInv(j)'
  <2>1. PassInv(j)
    BY DEF IInv
  <2>2. /\ cur(j)' = cur(j) /\ File(j)' = File(j) /\ Offered(j)' = Offered(j)
        /\ part' = part /\ snap' = snap /\ pool' = pool
    BY <1>2, <1>3, <1>4 DEF cur, File, Offered, envVars, fileVars
  <2>3. Sound(File(j), part[File(j)])' <=> Sound(File(j), part[File(j)])
    BY <2>2 DEF Sound
  <2>. QED  BY <1>3, <1>4, <2>1, <2>2, <2>3 DEF PassInv
<1>9. Local(j) /\ part' = part
  BY <1>2, <1>4 DEF Local, envVars, fileVars
<1>. QED  BY <1>5, <1>6, <1>7, <1>8, <1>9, AfterStep

\* After a crash no pass knows anything, and the files are as they were.
LEMMA CrashStep ==
    ASSUME IInv, Crash
    PROVE  IInv'
<1>1. BoxOK /\ FilesOK /\ SnapsSound /\ LinksWhole
  BY TypeParts DEF IInv
<1>2. /\ job' = [j \in Jobs |-> IdleJob]
      /\ pool' = [j \in Jobs |-> [s \in Sources |-> Absent]]
      /\ UNCHANGED <<envVars, fileVars>> /\ Inject("crash")
  BY DEF Crash
<1>3. IdleJob \in Job /\ IdleJob.pc = "idle" /\ IdleJob.todo = {}
  BY IdleType DEF IdleJob
<1>4. JobsOK' /\ PoolOK' /\ BoxOK'
  BY <1>1, <1>2, <1>3, BoxKept DEF JobsOK, PoolOK, Steps
<1>5. FilesOK' /\ SnapsSound' /\ LinksWhole'
  BY <1>1, <1>2 DEF FilesOK, SnapsSound, LinksWhole, Sound, fileVars
<1>6. TypeOK'
  BY <1>4, <1>5 DEF TypeOK, BoxOK, JobsOK, PoolOK, FilesOK
<1>7. \A j \in Jobs : PassInv(j)'
  BY <1>2, <1>3 DEF PassInv, Steps
<1>. QED  BY <1>5, <1>6, <1>7 DEF IInv

\* The clock, the application, a restore and a reload keep it.
LEMMA EnvironmentStep ==
    ASSUME IInv, Environment
    PROVE  IInv'
<1>1. /\ BoxOK /\ JobsOK /\ PoolOK /\ FilesOK /\ SnapsSound /\ LinksWhole
      /\ now \in Time /\ config \in Configs
  BY TypeParts DEF IInv, BoxOK
<1>2. \A j \in Jobs : job[j].pc \in Steps => /\ pool[j][cur(j).src] # Absent
                                            /\ cur(j).src \in Sources
  BY StepFacts
<1>3. ASSUME NEW kind, Inject(kind)
      PROVE  spent' \in 0 .. MaxEvents /\ untidy' \in BOOLEAN
  <2>1. spent' \in 0 .. MaxEvents
    BY <1>1, <1>3, BoundsAssumption DEF BoxOK, Inject
  <2>2. untidy' = (untidy \/ kind \in {"crash", "remove"})
    BY <1>3 DEF Inject
  <2>. QED  BY <2>1, <2>2
<1>4. CASE Tick \/ SetBack
  <2>1. now' \in Time
    BY <1>1, <1>4, BoundsAssumption DEF Tick, SetBack, Time
  <2>2. spent' \in 0 .. MaxEvents /\ untidy' \in BOOLEAN
    BY <1>1, <1>3, <1>4 DEF Tick, SetBack, NoEvent, BoxOK
  <2>3. UNCHANGED <<config, contents, pool, job, fileVars>>
    BY <1>4 DEF Tick, SetBack
  <2>4. BoxOK' /\ PoolOK'
    BY <1>1, <2>1, <2>2, <2>3 DEF BoxOK, PoolOK
  <2>. QED  BY <1>2, <2>3, <2>4, OutsideStep
<1>5. CASE Reload
  <2>1. /\ UNCHANGED <<now, contents, pool, job, fileVars>>
        /\ config' \in Configs /\ Inject("reload") /\ "reload" \in Events
    BY <1>5 DEF Reload, Inject
  <2>2. BoxOK' /\ PoolOK'
    BY <1>1, <1>3, <2>1 DEF BoxOK, PoolOK
  <2>. QED  BY <1>2, <2>1, <2>2, OutsideStep
<1>6. CASE \E s \in Sources : Commit(s)
  <2>1. PICK s \in Sources : Commit(s)
    BY <1>6
  <2>2. /\ contents' = [contents EXCEPT ![s] = @ \cup {now}] /\ NoEvent
        /\ UNCHANGED <<now, config, pool, job, fileVars>>
    BY <2>1 DEF Commit
  <2>3. BoxOK' /\ PoolOK'
    BY <1>1, <2>2 DEF BoxOK, PoolOK, NoEvent
  <2>. QED  BY <1>2, <2>2, <2>3, OutsideStep
<1>7. CASE \E s \in Sources : ReplaceSource(s)
  <2>1. PICK s \in Sources : ReplaceSource(s)
    BY <1>7
  <2> DEFINE Frozen(c) == IF c # Absent /\ c.file = Live
                          THEN [c EXCEPT !.file = contents[s]] ELSE c
  <2>2. /\ contents' = [contents EXCEPT ![s] = @ \cup {now}]
        /\ Inject("replace")
        /\ UNCHANGED <<now, config, job, fileVars>>
    BY <2>1 DEF ReplaceSource
  <2>3. pool' = [j \in Jobs |-> [pool[j] EXCEPT ![s] = Frozen(@)]]
    BY <2>1 DEF ReplaceSource
  <2>4. ASSUME NEW c \in Conn \cup {Absent}
        PROVE  /\ Frozen(c) \in Conn \cup {Absent}
               /\ Frozen(c) = Absent => c = Absent
    <3>1. contents[s] \in SUBSET Time
      BY <1>1 DEF BoxOK
    <3>2. CASE c # Absent /\ c.file = Live
      <4>1. Frozen(c) \in Conn
        BY <3>1, <3>2 DEF Conn
      <4>. HIDE DEF Frozen
      <4>. QED  BY <4>1, AbsentAssumption
    <3>3. CASE ~(c # Absent /\ c.file = Live)
      BY <3>3
    <3>. QED  BY <3>2, <3>3
  <2>5. PoolOK' /\ \A j \in Jobs, t \in Sources :
                        pool'[j][t] = Absent => pool[j][t] = Absent
    <3>. HIDE DEF Frozen
    <3>. QED  BY <1>1, <2>3, <2>4 DEF PoolOK
  <2>6. BoxOK'
    BY <1>1, <1>3, <2>2 DEF BoxOK
  <2>. QED  BY <1>2, <2>2, <2>5, <2>6, OutsideStep
<1>8. CASE \E j \in Jobs, s \in Sources : CloseIdle(j, s)
  <2>1. PICK j \in Jobs, s \in Sources : CloseIdle(j, s)
    BY <1>8
  <2>2. /\ pool' = [pool EXCEPT ![j] = [pool[j] EXCEPT ![s] = Absent]]
        /\ ~(job[j].pc \in Steps /\ cur(j).src = s) /\ NoEvent
        /\ UNCHANGED <<envVars, job, fileVars>>
    BY <2>1 DEF CloseIdle
  <2>3. BoxOK' /\ config' = config
    BY <1>1, <2>2, BoxKept DEF envVars
  <2>4. PoolOK'
    BY <1>1, <2>2 DEF PoolOK
  <2>5. \A k \in Jobs : job[k].pc \in Steps => pool'[k][cur(k).src] # Absent
    BY <1>1, <1>2, <2>2 DEF PoolOK
  <2>. QED  BY <2>2, <2>3, <2>4, <2>5, OutsideStep
<1>9. CASE \E j \in Jobs : ClosePools(j)
  <2>1. PICK j \in Jobs : ClosePools(j)
    BY <1>9
  <2>2. /\ pool' = [pool EXCEPT ![j] = [s \in Sources |-> Absent]]
        /\ job[j].pc \notin Steps /\ NoEvent
        /\ UNCHANGED <<envVars, job, fileVars>>
    BY <2>1 DEF ClosePools, Resting, Steps
  <2>3. BoxOK' /\ config' = config
    BY <1>1, <2>2, BoxKept DEF envVars
  <2>4. PoolOK'
    BY <1>1, <2>2 DEF PoolOK
  <2>5. \A k \in Jobs : job[k].pc \in Steps => pool'[k][cur(k).src] # Absent
    BY <1>1, <1>2, <2>2 DEF PoolOK
  <2>. QED  BY <2>2, <2>3, <2>4, <2>5, OutsideStep
<1>10. CASE \E j \in Jobs : Cancel(j)
  BY <1>10, CancelStep
<1>11. CASE Crash
  BY <1>11, CrashStep
<1>. QED
  BY <1>4, <1>5, <1>6, <1>7, <1>8, <1>9, <1>10, <1>11 DEF Environment

(***************************************************************************)
(* The invariant, and complete snapshots.                                  *)
(***************************************************************************)

\* The invariant holds of a process that has just started.
LEMMA InitIInv == Init => IInv
<1>. SUFFICES ASSUME Init PROVE IInv
  OBVIOUS
<1>1. BoxOK
  <2>1. now \in Time /\ spent \in 0 .. MaxEvents
    BY BoundsAssumption DEF Init, Time
  <2>2. untidy \in BOOLEAN /\ config \in Configs
    BY DEF Init
  <2>3. contents \in [Sources -> SUBSET Time]
    BY DEF Init
  <2>. QED  BY <2>1, <2>2, <2>3 DEF BoxOK
<1>2. PoolOK
  BY DEF Init, PoolOK
<1>3. FilesOK
  BY DEF Init, FilesOK
<1>4. JobsOK
  BY IdleType DEF Init, JobsOK, IdleJob, Steps
<1>5. \A j \in Jobs : PassInv(j)
  BY DEF Init, PassInv, IdleJob, Steps
<1>6. SnapsSound /\ LinksWhole
  BY DEF Init, SnapsSound, LinksWhole
<1>. QED  BY <1>1, <1>2, <1>3, <1>4, <1>5, <1>6, TypeParts DEF IInv

\* Every step of a pass keeps the invariant.
LEMMA PassStepIInv ==
    ASSUME IInv, NEW j \in Jobs, PassStep(j)
    PROVE  IInv'
<1>1. CASE AbortPass(j) \/ EndPass(j)
           \/ \E e \in job[j].todo : SkipEntry(j, e) \/ RefuseEntry(j, e)
  BY <1>1, LoopSteps
<1>2. CASE \E e \in job[j].todo : OpenSource(j, e)
  BY <1>2, OpenStep
<1>3. CASE CopyStep(j)
  <2>1. CASE FailCopy(j)
    <3>1. /\ job[j].pc \in Steps
          /\ NoEvent \/ \E kind : Inject(kind)
          /\ UNCHANGED <<envVars, pool, fileVars>>
      BY <2>1 DEF FailCopy, Steps
    <3>2. \E l \in Steps : /\ Goto(j, l) /\ l \in {"dropFailed", "discard"}
                           /\ l = "dropFailed" => cur(j).gz
      BY <2>1 DEF FailCopy, Steps
    <3>. QED  BY <3>1, <3>2, MoveOn
  <2>. QED  BY <1>3, <2>1, StartCopyStep, FinishCopyStep DEF CopyStep
<1>4. CASE GzipStep(j)
  BY <1>4, StartGzipStep, FinishGzipStep, ZippedStep, DropDumpStep
     DEF GzipStep
<1>5. CASE PublishStep(j)
  <2>1. CASE FailPromote(j)
    <3>1. /\ job[j].pc \in Steps /\ \E kind : Inject(kind)
          /\ UNCHANGED <<envVars, pool, fileVars>> /\ Goto(j, "discard")
          /\ "discard" \in Steps
      BY <2>1 DEF FailPromote, Steps
    <3>. QED  BY <3>1, MoveOn
  <2>. QED  BY <1>5, <2>1, DiscardStep, PromoteStep, RemoveStaleLinkStep,
               MakeLinkStep, SwapLinkStep, FailLinkStep DEF PublishStep
<1>. QED  BY <1>1, <1>2, <1>3, <1>4, <1>5 DEF PassStep

\* Every step of the system keeps the invariant: it is inductive.
LEMMA NextIInv ==
    ASSUME IInv, [Next]_vars
    PROVE  IInv'
<1>1. CASE \E j \in Jobs : StartPass(j)
  BY <1>1, FireStep DEF StartPass
<1>2. CASE \E j \in Jobs : PassStep(j)
  BY <1>2, PassStepIInv
<1>3. CASE Environment
  BY <1>3, EnvironmentStep
<1>4. CASE UNCHANGED vars
  <2>1. BoxOK /\ PoolOK
    BY TypeParts DEF IInv
  <2>2. BoxOK' /\ PoolOK' /\ UNCHANGED <<job, fileVars>> /\ config' = config
    BY <1>4, <2>1 DEF vars, fileVars, BoxOK, PoolOK
  <2>3. \A j \in Jobs : job[j].pc \in Steps => pool'[j][cur(j).src] # Absent
    BY <1>4, StepFacts DEF vars
  <2>. QED  BY <2>2, <2>3, OutsideStep
<1>. QED  BY <1>1, <1>2, <1>3, <1>4 DEF Next

\* The invariant holds in every reachable state, for any jobs, sources and
\* configurations and under every failure.
THEOREM Inductive == Spec => []IInv
BY InitIInv, NextIInv, PTL DEF Spec

\* Type correctness, with it that a pass always has an active entry in hand.
THEOREM TypeCorrect == Spec => []TypeOK
<1>1. IInv => TypeOK
  BY DEF IInv
<1>. QED  BY <1>1, Inductive, PTL

\* As long as the errors of closing the gzip stream stay away, a file under a
\* final name is a complete database, whatever else fails: with LocalCopyTail,
\* the unchecked Close is the only way to a truncated snapshot.
THEOREM WholeUnlessCloseFails ==
    ASSUME "close" \notin Events
    PROVE  Spec => []PromotedIsWhole
<1>1. IInv => PromotedIsWhole
  BY DEF IInv, SnapsSound, Sound, PromotedIsWhole
<1>. QED  BY <1>1, Inductive, PTL

\* The latest link of a place, once there, holds a complete database, even if
\* the errors of closing are among the failures: compressed snapshots get none.
THEOREM LatestIsWhole ==
    Spec => [](\A p \in Place : link[p] # Absent => link[p].file.whole)
<1>1. IInv => \A p \in Place : link[p] # Absent => link[p].file.whole
  BY DEF IInv, LinksWhole
<1>. QED  BY <1>1, Inductive, PTL

(***************************************************************************)
(* The passes, field by field.                                             *)
(***************************************************************************)

\* What no step of a pass changes, of its own record and of the others'.
Kept(j) ==
    /\ job'[j].at = job[j].at /\ job'[j].seen = job[j].seen
    /\ job'[j].since = job[j].since /\ job'[j].cancelled = job[j].cancelled
    /\ job'[j].took = job[j].took
    /\ \A k \in Jobs \ {j} : job'[k] = job[k]

\* The pass stays with its entry and goes to step l.
Stays(j, l) ==
    /\ Kept(j)
    /\ job'[j].pc = l /\ job'[j].cur = job[j].cur
    /\ job'[j].todo = job[j].todo /\ job'[j].failed = job[j].failed

\* The pass is done with its entry, and with an error if err.
Ends(j, err) ==
    /\ Kept(j)
    /\ job'[j].pc = "loop" /\ job'[j].todo = job[j].todo \ {job[j].cur}
    /\ job'[j].failed = (job[j].failed \/ err)

\* A pass that goes to another of its steps stays with its entry.
LEMMA GotoShape ==
    ASSUME JobsOK, NEW j \in Jobs, NEW l, Goto(j, l)
    PROVE  Stays(j, l) /\ job'[j].got = job[j].got /\ job'[j].ok = job[j].ok
<1> DEFINE r == [job[j] EXCEPT !.pc = l]
<1>1. job[j] \in Job
  BY DEF JobsOK
<1>2. job' = [job EXCEPT ![j] = r]
  BY DEF Goto
<1>3. /\ r.pc = l /\ r.at = job[j].at /\ r.todo = job[j].todo
      /\ r.cur = job[j].cur /\ r.got = job[j].got /\ r.ok = job[j].ok
      /\ r.took = job[j].took /\ r.seen = job[j].seen /\ r.since = job[j].since
      /\ r.failed = job[j].failed /\ r.cancelled = job[j].cancelled
  BY <1>1 DEF Job
<1>4. job'[j] = r /\ \A k \in Jobs \ {j} : job'[k] = job[k]
  BY <1>2 DEF JobsOK
<1>. QED
  <2>. HIDE DEF r
  <2>. QED  BY <1>3, <1>4 DEF Stays, Kept

\* A pass whose entry is over takes it off its list.
LEMMA EndShape ==
    ASSUME JobsOK, NEW j \in Jobs, NEW err \in BOOLEAN, EndEntry(j, err)
    PROVE  Ends(j, err)
<1> DEFINE r == [job[j] EXCEPT !.pc = "loop", !.todo = @ \ {cur(j)},
                               !.cur = NoEntry, !.got = Partial,
                               !.failed = @ \/ err]
<1>1. job[j] \in Job
  BY DEF JobsOK
<1>2. job' = [job EXCEPT ![j] = r]
  BY DEF EndEntry
<1>3. /\ r.pc = "loop" /\ r.at = job[j].at /\ r.todo = job[j].todo \ {cur(j)}
      /\ r.took = job[j].took /\ r.seen = job[j].seen /\ r.since = job[j].since
      /\ r.failed = (job[j].failed \/ err) /\ r.cancelled = job[j].cancelled
  BY <1>1 DEF Job
<1>4. job'[j] = r /\ \A k \in Jobs \ {j} : job'[k] = job[k]
  BY <1>2 DEF JobsOK
<1>. QED
  <2>. HIDE DEF r
  <2>. QED  BY <1>3, <1>4 DEF Ends, Kept, cur

\* The steps of the loop: entries come off the list, the pass ends, or it goes
\* on with an entry that is due; an error has a cause in the pass.
LEMMA LoopShape ==
    ASSUME IInv, NEW j \in Jobs,
           \/ AbortPass(j) \/ EndPass(j)
           \/ \E e \in job[j].todo :
                SkipEntry(j, e) \/ RefuseEntry(j, e) \/ OpenSource(j, e)
    PROVE  /\ Kept(j) /\ job[j].pc = "loop"
           /\ job'[j].todo \subseteq job[j].todo
           /\ \/ job'[j].pc \in {"loop", "done"}
              \/ /\ job'[j].pc = "copy" /\ job'[j].cur \in job'[j].todo
                 /\ Active(job'[j].cur) /\ Due(j, job'[j].cur)
           /\ job'[j].failed => \/ job[j].failed \/ job[j].cancelled
                                \/ \E kind : Inject(kind)
           /\ job[j].failed => job'[j].failed
           /\ job'[j].pc = "done" => job'[j].todo = {}
           /\ ~job'[j].failed => \A e \in job[j].todo \ job'[j].todo : Active(e) => ~Due(j, e)
           /\ UNCHANGED <<envVars, fileVars>>
           /\ NoEvent \/ \E kind \in {"stat", "open"} : Inject(kind)
<1>1. job \in [Jobs -> Job] /\ job[j] \in Job
  BY DEF IInv, TypeOK
<1>2. CASE AbortPass(j)
  <2> DEFINE r == [job[j] EXCEPT !.pc = "done", !.todo = {}, !.failed = TRUE]
  <2>1. /\ r.pc = "done" /\ r.todo = {} /\ r.failed /\ r.at = job[j].at
        /\ r.took = job[j].took /\ r.seen = job[j].seen /\ r.since = job[j].since
        /\ r.cancelled = job[j].cancelled
    BY <1>1 DEF Job
  <2>2. job' = [job EXCEPT ![j] = r]
    BY <1>2 DEF AbortPass
  <2>3. job'[j] = r /\ \A k \in Jobs \ {j} : job'[k] = job[k]
    BY <1>1, <2>2
  <2>. HIDE DEF r
  <2>. QED  BY <1>2, <2>1, <2>3 DEF AbortPass, Kept
<1>3. CASE EndPass(j)
  <2>1. Stays(j, "done")
    BY <1>3, GotoShape, TypeParts DEF EndPass, IInv
  <2>. QED  BY <1>3, <2>1 DEF EndPass, Stays
<1>4. CASE \E e \in job[j].todo : SkipEntry(j, e)
  <2>1. PICK e \in job[j].todo : SkipEntry(j, e)
    BY <1>4
  <2> DEFINE r == [job[j] EXCEPT !.todo = @ \ {e}]
  <2>2. /\ r.pc = job[j].pc /\ r.todo = job[j].todo \ {e} /\ r.at = job[j].at
        /\ r.took = job[j].took /\ r.seen = job[j].seen /\ r.since = job[j].since
        /\ r.cancelled = job[j].cancelled /\ r.failed = job[j].failed
    BY <1>1 DEF Job
  <2>3. job' = [job EXCEPT ![j] = r]
    BY <2>1 DEF SkipEntry
  <2>4. job'[j] = r /\ \A k \in Jobs \ {j} : job'[k] = job[k]
    BY <1>1, <2>3
  <2>. HIDE DEF r
  <2>. QED  BY <2>1, <2>2, <2>4 DEF SkipEntry, Visiting, Kept
<1>5. CASE \E e \in job[j].todo : RefuseEntry(j, e)
  <2>1. PICK e \in job[j].todo : RefuseEntry(j, e)
    BY <1>5
  <2> DEFINE r == [job[j] EXCEPT !.todo = @ \ {e}, !.failed = TRUE]
  <2>2. /\ r.pc = job[j].pc /\ r.todo = job[j].todo \ {e} /\ r.at = job[j].at
        /\ r.took = job[j].took /\ r.seen = job[j].seen /\ r.since = job[j].since
        /\ r.cancelled = job[j].cancelled /\ r.failed
    BY <1>1 DEF Job
  <2>3. job' = [job EXCEPT ![j] = r]
    BY <2>1 DEF RefuseEntry
  <2>4. job'[j] = r /\ \A k \in Jobs \ {j} : job'[k] = job[k]
    BY <1>1, <2>3
  <2>. HIDE DEF r
  <2>. QED  BY <2>1, <2>2, <2>4 DEF RefuseEntry, Visiting, Kept
<1>6. CASE \E e \in job[j].todo : OpenSource(j, e)
  <2>1. PICK e \in job[j].todo : OpenSource(j, e)
    BY <1>6
  <2> DEFINE r == [job[j] EXCEPT !.pc = "copy", !.cur = e]
  <2>2. /\ r.pc = "copy" /\ r.cur = e /\ r.todo = job[j].todo
        /\ r.at = job[j].at /\ r.took = job[j].took /\ r.seen = job[j].seen /\ r.since = job[j].since
        /\ r.cancelled = job[j].cancelled /\ r.failed = job[j].failed
    BY <1>1 DEF Job
  <2>3. job' = [job EXCEPT ![j] = r]
    BY <2>1 DEF OpenSource
  <2>4. job'[j] = r /\ \A k \in Jobs \ {j} : job'[k] = job[k]
    BY <1>1, <2>3
  <2>. HIDE DEF r
  <2>. QED  BY <2>1, <2>2, <2>4 DEF OpenSource, Visiting, Kept
<1>. QED  BY <1>2, <1>3, <1>4, <1>5, <1>6

\* The start of a pass, field by field.
LEMMA FireShape ==
    ASSUME IInv, NEW j \in Jobs, Fire(j)
    PROVE  /\ job[j].pc \in Resting /\ job'[j].pc = "loop"
           /\ job'[j].at = now /\ job'[j].took = config[j] /\ job'[j].todo = config[j]
           /\ job'[j].since = spent
           /\ ~job'[j].failed /\ ~job'[j].cancelled
           /\ \E bad \in SUBSET Dirs : job'[j].seen = Scan(config[j], bad)
           /\ \/ job'[j].seen = Scan(config[j], {}) /\ NoEvent
              \/ Inject("scan")
           /\ \A k \in Jobs \ {j} : job'[k] = job[k]
           /\ UNCHANGED <<envVars, pool, fileVars>>
<1>1. PICK bad \in SUBSET Dirs :
        /\ IF bad = {} THEN NoEvent ELSE Inject("scan")
        /\ job' = [job EXCEPT ![j] =
                    [IdleJob EXCEPT !.pc = "loop", !.at = now,
                                    !.took = config[j], !.todo = config[j],
                                    !.since = spent,
                                    !.seen = Scan(config[j], bad)]]
  BY DEF Fire
<1> DEFINE r == [IdleJob EXCEPT !.pc = "loop", !.at = now,
                                !.took = config[j], !.todo = config[j],
                                !.since = spent, !.seen = Scan(config[j], bad)]
<1>2. /\ r.pc = "loop" /\ r.at = now /\ r.took = config[j] /\ r.todo = config[j]
      /\ r.since = spent
      /\ r.seen = Scan(config[j], bad) /\ ~r.failed /\ ~r.cancelled
  BY DEF IdleJob
<1>3. job' = [job EXCEPT ![j] = r]
  BY <1>1
<1>4. job'[j] = r /\ \A k \in Jobs \ {j} : job'[k] = job[k]
  <2>. HIDE DEF r
  <2>. QED  BY <1>3 DEF IInv, TypeOK
<1>. HIDE DEF r
<1>. QED  BY <1>1, <1>2, <1>4 DEF Fire

\* The first half of Copy, field by field.
LEMMA StartCopyShape ==
    ASSUME JobsOK, NEW j \in Jobs, StartCopy(j)
    PROVE  Stays(j, "copying") /\ job'[j].got.data = Read(j, cur(j).src)
<1> DEFINE g == [data |-> Read(j, cur(j).src), whole |-> FALSE]
           r == [job[j] EXCEPT !.pc = "copying", !.got = g]
<1>1. job[j] \in Job
  BY DEF JobsOK
<1>2. job' = [job EXCEPT ![j] = r]
  BY DEF StartCopy
<1>3. /\ r.pc = "copying" /\ r.at = job[j].at /\ r.todo = job[j].todo
      /\ r.cur = job[j].cur /\ r.got = g
      /\ r.took = job[j].took /\ r.seen = job[j].seen /\ r.since = job[j].since
      /\ r.failed = job[j].failed /\ r.cancelled = job[j].cancelled
  <2>. HIDE DEF g
  <2>. QED  BY <1>1 DEF Job
<1>4. job'[j] = r /\ \A k \in Jobs \ {j} : job'[k] = job[k]
  <2>. HIDE DEF r
  <2>. QED  BY <1>2 DEF JobsOK
<1>. HIDE DEF r
<1>. QED  BY <1>3, <1>4 DEF Stays, Kept

\* What Copy returns in the end: for VACUUM INTO what it read at first, else
\* what it reads now.
Returned(j) == IF j \in VacuumJobs THEN job[j].got.data ELSE Read(j, cur(j).src)

\* The second half of Copy, field by field.
LEMMA FinishCopyShape ==
    ASSUME JobsOK, NEW j \in Jobs, FinishCopy(j), cur(j).gz \in BOOLEAN
    PROVE  \/ /\ cur(j).gz /\ Stays(j, "gzip")
              /\ job'[j].got = Whole(Returned(j)) /\ part' = part
           \/ /\ ~cur(j).gz /\ Stays(j, "promote")
              /\ part' = [part EXCEPT ![File(j)] = Whole(Returned(j))]
<1>1. CASE ~cur(j).gz
  BY <1>1, GotoShape DEF FinishCopy, Returned
<1>2. CASE cur(j).gz
  <2> DEFINE g == Whole(Returned(j))
             r == [job[j] EXCEPT !.pc = "gzip", !.got = g]
  <2>1. job[j] \in Job
    BY DEF JobsOK
  <2>2. job' = [job EXCEPT ![j] = r] /\ part' = part
    BY <1>2 DEF FinishCopy, Returned
  <2>3. /\ r.pc = "gzip" /\ r.at = job[j].at /\ r.todo = job[j].todo
        /\ r.cur = job[j].cur /\ r.got = g
        /\ r.took = job[j].took /\ r.seen = job[j].seen /\ r.since = job[j].since
        /\ r.failed = job[j].failed /\ r.cancelled = job[j].cancelled
    <3>. HIDE DEF g
    <3>. QED  BY <2>1 DEF Job
  <2>4. job'[j] = r /\ \A k \in Jobs \ {j} : job'[k] = job[k]
    <3>. HIDE DEF r
    <3>. QED  BY <2>2 DEF JobsOK
  <2>. HIDE DEF r
  <2>. QED  BY <1>2, <2>2, <2>3, <2>4 DEF Stays, Kept
<1>. QED  BY <1>1, <1>2

\* The end of compressFile, field by field.
LEMMA ZippedShape ==
    ASSUME JobsOK, NEW j \in Jobs, FinishGzip(j) \/ LoseTail(j) \/ FailGzip(j)
    PROVE  /\ Stays(j, "drop") /\ job'[j].got = job[j].got
           /\ job'[j].ok \in BOOLEAN
           /\ IF job'[j].ok THEN FinishGzip(j) \/ LoseTail(j) ELSE FailGzip(j)
<1>1. \E b \in BOOLEAN : /\ job' = [job EXCEPT ![j].pc = "drop", ![j].ok = b]
                         /\ b => FinishGzip(j) \/ LoseTail(j)
                         /\ ~b => FailGzip(j)
  BY DEF FinishGzip, LoseTail, FailGzip
<1>2. PICK b \in BOOLEAN : /\ job' = [job EXCEPT ![j].pc = "drop", ![j].ok = b]
                           /\ b => FinishGzip(j) \/ LoseTail(j)
                           /\ ~b => FailGzip(j)
  BY <1>1
<1> DEFINE r == [job[j] EXCEPT !.pc = "drop", !.ok = b]
<1>3. job[j] \in Job /\ job' = [job EXCEPT ![j] = r]
  BY <1>2 DEF JobsOK
<1>4. /\ r.pc = "drop" /\ r.at = job[j].at /\ r.todo = job[j].todo
      /\ r.cur = job[j].cur /\ r.got = job[j].got /\ r.ok = b
      /\ r.took = job[j].took /\ r.seen = job[j].seen /\ r.since = job[j].since
      /\ r.failed = job[j].failed /\ r.cancelled = job[j].cancelled
  BY <1>3 DEF Job
<1>5. job'[j] = r /\ \A k \in Jobs \ {j} : job'[k] = job[k]
  <2>. HIDE DEF r
  <2>. QED  BY <1>3 DEF JobsOK
<1>. HIDE DEF r
<1>. QED  BY <1>2, <1>4, <1>5 DEF Stays, Kept

\* The steps that copy, compress and publish are steps of an entry.
LEMMA StepOnly ==
    ASSUME NEW j \in Jobs, CopyStep(j) \/ GzipStep(j) \/ PublishStep(j)
    PROVE  job[j].pc \in Steps
<1>1. CopyStep(j) => job[j].pc \in Steps
  BY DEF CopyStep, StartCopy, FinishCopy, FailCopy, Steps
<1>2. GzipStep(j) => job[j].pc \in Steps
  BY DEF GzipStep, StartGzip, FinishGzip, LoseTail, FailGzip, DropDump, Steps
<1>3. PublishStep(j) => job[j].pc \in Steps
  BY DEF PublishStep, Discard, Promote, FailPromote, RemoveStaleLink, MakeLink,
         SwapLink, FailLink, Steps
<1>. QED  BY <1>1, <1>2, <1>3

(***************************************************************************)
(* Every error path tidies up, and an error has its cause in the pass.     *)
(***************************************************************************)

\* Steps at which the dump, and the .tmp file, of the entry in hand may exist.
DumpThere(j) == job[j].pc \in {"gzip", "zipping", "drop", "dropFailed"}
                \/ (job[j].pc = "copying" /\ cur(j).gz)
PartThere(j) == job[j].pc \in {"zipping", "drop", "discard", "promote"}
                \/ (job[j].pc = "copying" /\ ~cur(j).gz)

\* Without a crash or a failed removal, every file that has no final name is
\* of a pass that still has to deal with it.
OwnedInv == ~untidy =>
    /\ \A d \in staged : \E j \in Jobs : DumpThere(j) /\ d = Dump(j)
    /\ \A n \in Name : part[n] # Absent =>
            \E j \in Jobs : PartThere(j) /\ n = File(j)

\* The states of a pass of the online job that an event of that pass led to.
Blamed(j) ==
    \/ job[j].failed \/ job[j].cancelled
    \/ job[j].pc \in {"dropFailed", "discard"}
    \/ job[j].pc = "drop" /\ ~job[j].ok
    \/ job[j].pc = "link" /\ ltmp[At(j)] # Absent

BlameInv == \A j \in Jobs :
    /\ job[j].since <= spent
    /\ j \notin VacuumJobs /\ Blamed(j) => spent > job[j].since

\* The count of injected events, and the record of crashes, only grow.
LEMMA Counted ==
    ASSUME BoxOK, NoEvent \/ \E kind : Inject(kind)
    PROVE  /\ spent \in Nat /\ spent' \in Nat /\ spent' >= spent
           /\ (\E kind : Inject(kind)) => spent' > spent
           /\ untidy => untidy'
           /\ NoEvent => untidy' = untidy
           /\ Inject("remove") \/ Inject("crash") => untidy'
<1>1. spent \in Nat /\ (NoEvent => spent' = spent)
  BY BoundsAssumption DEF BoxOK, NoEvent
<1>2. (\E kind : Inject(kind)) => spent' = spent + 1
  BY DEF Inject
<1>3. NoEvent => untidy' = untidy
  BY DEF NoEvent
<1>4. ASSUME NEW kind, Inject(kind)
      PROVE  untidy' = (untidy \/ kind \in {"crash", "remove"})
  BY <1>4 DEF Inject
<1>5. untidy => untidy'
  <2>1. CASE NoEvent
    BY <1>3, <2>1
  <2>2. CASE \E kind : Inject(kind)
    <3>1. PICK kind : Inject(kind)
      BY <2>2
    <3>. QED  BY <1>4, <3>1
  <2>. QED  BY <2>1, <2>2
<1>7. (Inject("remove") => untidy') /\ (Inject("crash") => untidy')
  BY <1>4
<1>6. /\ spent' \in Nat /\ spent' >= spent
      /\ (\E kind : Inject(kind)) => spent' > spent
  BY <1>1, <1>2
<1>. QED  BY <1>1, <1>3, <1>5, <1>6, <1>7

\* What the files without a final name tell engine j of its own.
LEMMA OwnFiles ==
    ASSUME IInv, OwnedInv, ~untidy, NEW j \in Jobs, job[j].pc \in Steps
    PROVE  /\ Dump(j) \in staged => DumpThere(j)
           /\ part[File(j)] # Absent => PartThere(j)
<1>1. ASSUME Dump(j) \in staged PROVE DumpThere(j)
  <2>1. PICK i \in Jobs : DumpThere(i) /\ Dump(j) = Dump(i)
    BY <1>1 DEF OwnedInv
  <2>2. i = j
    BY <2>1 DEF Dump
  <2>. QED  BY <2>1, <2>2
<1>2. ASSUME part[File(j)] # Absent PROVE PartThere(j)
  <2>1. File(j) \in Name
    BY StepFacts
  <2>2. PICK i \in Jobs : PartThere(i) /\ File(j) = File(i)
    BY <1>2, <2>1 DEF OwnedInv
  <2>3. job[i].pc \in Steps
    BY <2>2 DEF PartThere, Steps
  <2>. QED  BY <2>2, <2>3, Isolated
<1>. QED  BY <1>1, <1>2

\* A step of engine j in an entry keeps the ownership of the files if it does
\* so for the two files of that entry.
LEMMA OwnedStep ==
    ASSUME IInv, OwnedInv, NEW j \in Jobs, job[j].pc \in Steps,
           \A k \in Jobs \ {j} : job'[k] = job[k],
           untidy => untidy',
           staged' \subseteq staged \cup {Dump(j)},
           \A n \in Name \ {File(j)} : part'[n] = part[n],
           ~untidy' /\ Dump(j) \in staged' =>
                DumpThere(j)' /\ Dump(j)' = Dump(j),
           ~untidy' /\ part'[File(j)] # Absent =>
                PartThere(j)' /\ File(j)' = File(j)
    PROVE  OwnedInv'
<1>. SUFFICES ASSUME ~untidy'
              PROVE  /\ \A d \in staged' : \E i \in Jobs : DumpThere(i)' /\ d = Dump(i)'
                     /\ \A n \in Name : part'[n] # Absent =>
                            \E i \in Jobs : PartThere(i)' /\ n = File(i)'
  BY DEF OwnedInv
<1>1. ASSUME NEW i \in Jobs \ {j}
      PROVE  /\ DumpThere(i)' = DumpThere(i) /\ PartThere(i)' = PartThere(i)
             /\ Dump(i)' = Dump(i) /\ File(i)' = File(i)
  BY DEF DumpThere, PartThere, Dump, File, cur
<1>2. ASSUME NEW d \in staged'
      PROVE  \E i \in Jobs : DumpThere(i)' /\ d = Dump(i)'
  <2>1. CASE d = Dump(j)
    BY <1>2, <2>1
  <2>2. CASE d # Dump(j)
    <3>1. PICK i \in Jobs : DumpThere(i) /\ d = Dump(i)
      BY <1>2, <2>2 DEF OwnedInv
    <3>. QED  BY <1>1, <2>2, <3>1
  <2>. QED  BY <2>1, <2>2
<1>3. ASSUME NEW n \in Name, part'[n] # Absent
      PROVE  \E i \in Jobs : PartThere(i)' /\ n = File(i)'
  <2>1. CASE n = File(j)
    BY <1>3, <2>1
  <2>2. CASE n # File(j)
    <3>1. PICK i \in Jobs : PartThere(i) /\ n = File(i)
      BY <1>3, <2>2 DEF OwnedInv
    <3>. QED  BY <1>1, <2>2, <3>1
  <2>. QED  BY <2>1, <2>2
<1>. QED  BY <1>2, <1>3

\* A step in no entry, which leaves the files alone, keeps it too.
LEMMA OwnedElsewhere ==
    ASSUME OwnedInv, untidy => untidy', UNCHANGED fileVars,
           \A k \in Jobs : \/ job'[k].pc = job[k].pc /\ job'[k].cur = job[k].cur
                              /\ job'[k].at = job[k].at
                           \/ job[k].pc \notin Steps
    PROVE  OwnedInv'
<1>1. ASSUME NEW i \in Jobs, DumpThere(i) \/ PartThere(i)
      PROVE  /\ DumpThere(i)' = DumpThere(i) /\ PartThere(i)' = PartThere(i)
             /\ Dump(i)' = Dump(i) /\ File(i)' = File(i)
  <2>1. job[i].pc \in Steps
    BY <1>1 DEF DumpThere, PartThere, Steps
  <2>. QED  BY <2>1 DEF DumpThere, PartThere, Dump, File, cur
<1>. QED  BY <1>1 DEF OwnedInv, fileVars

\* A step of engine j blames its own pass only if an event was injected there.
LEMMA BlameStep ==
    ASSUME IInv, BlameInv, NEW j \in Jobs,
           \A k \in Jobs \ {j} : job'[k] = job[k],
           NoEvent \/ \E kind : Inject(kind),
           \A p \in Place : ltmp'[p] = ltmp[p] \/ (job[j].pc \in Steps /\ p = At(j)),
           job'[j].since = job[j].since,
           j \notin VacuumJobs /\ Blamed(j)' =>
                Blamed(j) \/ \E kind : Inject(kind)
    PROVE  BlameInv'
<1>1. /\ spent \in Nat /\ spent' \in Nat /\ spent' >= spent
      /\ (\E kind : Inject(kind)) => spent' > spent
  BY Counted, TypeParts DEF IInv
<1>2. \A k \in Jobs : job[k].since \in Int /\ job[k].since <= spent
  BY BoundsAssumption DEF IInv, TypeOK, Job, BlameInv
<1>3. ASSUME NEW k \in Jobs \ {j} PROVE Blamed(k)' => Blamed(k)
  <2>1. CASE job[k].pc = "link"
    <3>1. job[k].pc \in Steps
      BY <2>1 DEF Steps
    <3>2. At(k) \in Place /\ (job[j].pc \in Steps => At(k) # At(j))
      BY <3>1, StepFacts, Isolated
    <3>3. ltmp'[At(k)] = ltmp[At(k)] /\ At(k)' = At(k)
      BY <3>2 DEF At, cur
    <3>. QED  BY <3>3 DEF Blamed
  <2>2. CASE job[k].pc # "link"
    BY <2>2 DEF Blamed
  <2>. QED  BY <2>1, <2>2
<1>4. ASSUME NEW k \in Jobs
      PROVE  /\ job'[k].since <= spent'
             /\ k \notin VacuumJobs /\ Blamed(k)' => spent' > job'[k].since
  <2>1. job'[k].since = job[k].since
    OBVIOUS
  <2>2. k \notin VacuumJobs /\ Blamed(k)' => Blamed(k) \/ spent' > spent
    BY <1>1, <1>3
  <2>3. k \notin VacuumJobs /\ Blamed(k) => spent > job[k].since
    BY DEF BlameInv
  <2>. QED  BY <1>1, <1>2, <2>1, <2>2, <2>3
<1>. QED  BY <1>4 DEF BlameInv

TidyInv == OwnedInv /\ BlameInv

\* Every step of a pass keeps both: each of its error paths goes by the removal
\* of what the pass has made, and only an event of the pass leads into one.
LEMMA PassTidy ==
    ASSUME IInv, TidyInv, NEW j \in Jobs, PassStep(j)
    PROVE  TidyInv'
<1>1. OwnedInv /\ BlameInv /\ BoxOK /\ JobsOK
  BY TypeParts DEF TidyInv, IInv
<1>2. ASSUME \/ AbortPass(j) \/ EndPass(j)
             \/ \E e \in job[j].todo :
                    SkipEntry(j, e) \/ RefuseEntry(j, e) \/ OpenSource(j, e)
      PROVE  TidyInv'
  <2>1. /\ Kept(j) /\ job[j].pc = "loop"
        /\ job'[j].pc \in {"loop", "done", "copy"}
        /\ job'[j].failed => \/ job[j].failed \/ job[j].cancelled
                             \/ \E kind : Inject(kind)
        /\ UNCHANGED fileVars
        /\ NoEvent \/ \E kind : Inject(kind)
    BY <1>2, LoopShape
  <2>2. OwnedInv'
    BY <1>1, <2>1, Counted, OwnedElsewhere DEF Kept, Steps
  <2>3. Blamed(j)' => Blamed(j) \/ \E kind : Inject(kind)
    BY <2>1 DEF Blamed, Kept
  <2>4. BlameInv'
    BY <1>1, <2>1, <2>3, BlameStep DEF Kept, fileVars
  <2>. QED  BY <2>2, <2>4 DEF TidyInv
<1>3. ASSUME CopyStep(j) \/ GzipStep(j) \/ PublishStep(j), job[j].pc \in Steps
      PROVE  TidyInv'
  <2>1. /\ File(j) \in Name /\ At(j) \in Place /\ cur(j).gz \in BOOLEAN
        /\ ~untidy => /\ Dump(j) \in staged => DumpThere(j)
                      /\ part[File(j)] # Absent => PartThere(j)
    BY <1>1, <1>3, StepFacts, OwnFiles
  <2>2. ASSUME Kept(j), NoEvent \/ \E kind : Inject(kind),
               staged' \subseteq staged \cup {Dump(j)},
               \A n \in Name \ {File(j)} : part'[n] = part[n],
               \A p \in Place \ {At(j)} : ltmp'[p] = ltmp[p],
               ~untidy' /\ Dump(j) \in staged' =>
                    DumpThere(j)' /\ Dump(j)' = Dump(j),
               ~untidy' /\ part'[File(j)] # Absent =>
                    PartThere(j)' /\ File(j)' = File(j),
               j \notin VacuumJobs /\ Blamed(j)' =>
                    Blamed(j) \/ \E kind : Inject(kind)
        PROVE  TidyInv'
    <3>1. OwnedInv'
      BY <1>1, <1>3, <2>2, Counted, OwnedStep DEF Kept
    <3>2. BlameInv'
      BY <1>1, <1>3, <2>2, BlameStep DEF Kept
    <3>. QED  BY <3>1, <3>2 DEF TidyInv
  <2>3. ASSUME NEW l, Stays(j, l)
        PROVE  /\ File(j)' = File(j) /\ Dump(j)' = Dump(j)
               /\ cur(j)' = cur(j) /\ At(j)' = At(j) /\ Kept(j)
               /\ job'[j].pc = l /\ job'[j].failed = job[j].failed
               /\ job'[j].cancelled = job[j].cancelled
    BY <2>3 DEF Stays, Kept, File, Dump, At, cur
  <2>4. CASE StartCopy(j)
    <3>1. Stays(j, "copying") /\ job[j].pc = "copy" /\ NoEvent
      BY <1>1, <2>4, StartCopyShape DEF StartCopy
    <3>2. CASE cur(j).gz
      <4>1. staged' = staged \cup {Dump(j)} /\ part' = part /\ ltmp' = ltmp
        BY <2>4, <3>2 DEF StartCopy
      <4>. QED  BY <1>1, <2>1, <2>2, <2>3, <3>1, <3>2, <4>1, Counted
                DEF DumpThere, PartThere, Blamed
    <3>3. CASE ~cur(j).gz
      <4>1. /\ part' = [part EXCEPT ![File(j)] = Partial] /\ staged' = staged
            /\ ltmp' = ltmp
        BY <2>4, <3>3 DEF StartCopy
      <4>2. \A n \in Name \ {File(j)} : part'[n] = part[n]
        BY <2>1, <4>1 DEF IInv, TypeOK
      <4>. QED  BY <1>1, <2>1, <2>2, <2>3, <3>1, <3>3, <4>1, <4>2, Counted
                DEF DumpThere, PartThere, Blamed
    <3>. QED  BY <3>2, <3>3
  <2>5. ASSUME NEW err \in BOOLEAN, EndEntry(j, err)
        PROVE  /\ Kept(j) /\ job'[j].pc = "loop"
               /\ job'[j].failed = (job[j].failed \/ err)
               /\ job'[j].cancelled = job[j].cancelled
    BY <1>1, <2>5, EndShape DEF Ends, Kept
  <2>6. CASE FinishCopy(j)
    <3>1. job[j].pc = "copying" /\ NoEvent /\ UNCHANGED <<staged, ltmp>>
      BY <2>6 DEF FinishCopy
    <3>2. CASE cur(j).gz
      <4>1. Stays(j, "gzip") /\ part' = part
        BY <1>1, <2>1, <2>6, <3>2, FinishCopyShape
      <4>. QED  BY <1>1, <2>1, <2>2, <2>3, <3>1, <3>2, <4>1, Counted
                DEF DumpThere, PartThere, Blamed
    <3>3. CASE ~cur(j).gz
      <4>1. /\ Stays(j, "promote")
            /\ part' = [part EXCEPT ![File(j)] = Whole(Returned(j))]
        BY <1>1, <2>1, <2>6, <3>3, FinishCopyShape
      <4>2. \A n \in Name \ {File(j)} : part'[n] = part[n]
        BY <2>1, <4>1 DEF IInv, TypeOK
      <4>. QED  BY <1>1, <2>1, <2>2, <2>3, <3>1, <3>3, <4>1, <4>2, Counted
                DEF DumpThere, PartThere, Blamed
    <3>. QED  BY <2>1, <3>2, <3>3
  <2>7. CASE FailCopy(j)
    <3>1. /\ job[j].pc \in {"copy", "copying"} /\ UNCHANGED fileVars
          /\ NoEvent \/ \E kind : Inject(kind)
          /\ \/ \E kind : Inject(kind)
             \/ job[j].cancelled \/ j \in VacuumJobs
          /\ Goto(j, IF cur(j).gz THEN "dropFailed" ELSE "discard")
      BY <2>7 DEF FailCopy
    <3>2. Stays(j, IF cur(j).gz THEN "dropFailed" ELSE "discard")
      BY <1>1, <3>1, GotoShape
    <3>. QED  BY <1>1, <2>1, <2>2, <2>3, <3>1, <3>2, Counted
              DEF DumpThere, PartThere, Blamed, fileVars
  <2>8. CASE StartGzip(j)
    <3>1. /\ job[j].pc = "gzip" /\ NoEvent /\ UNCHANGED <<staged, ltmp>>
          /\ Stays(j, "zipping")
          /\ part' = [part EXCEPT ![File(j)] = Partial]
      BY <1>1, <2>8, GotoShape DEF StartGzip
    <3>2. \A n \in Name \ {File(j)} : part'[n] = part[n]
      BY <2>1, <3>1 DEF IInv, TypeOK
    <3>. QED  BY <1>1, <2>1, <2>2, <2>3, <3>1, <3>2, Counted
              DEF DumpThere, PartThere, Blamed
  <2>9. CASE FinishGzip(j) \/ LoseTail(j) \/ FailGzip(j)
    <3>1. /\ Stays(j, "drop") /\ job'[j].ok \in BOOLEAN
          /\ ~job'[j].ok => FailGzip(j)
      BY <1>1, <2>9, ZippedShape
    <3>2. /\ job[j].pc \in {"gzip", "zipping"} /\ UNCHANGED <<staged, ltmp>>
          /\ NoEvent \/ \E kind : Inject(kind)
          /\ FailGzip(j) => \E kind : Inject(kind)
          /\ part' = [part EXCEPT ![File(j)] = job[j].got] \/ part' = part
      BY <2>9 DEF FinishGzip, LoseTail, FailGzip, fileVars
    <3>3. \A n \in Name \ {File(j)} : part'[n] = part[n]
      BY <2>1, <3>2 DEF IInv, TypeOK
    <3>. QED  BY <1>1, <2>1, <2>2, <2>3, <3>1, <3>2, <3>3, Counted
              DEF DumpThere, PartThere, Blamed
  <2>10. CASE DropDump(j)
    <3>1. /\ job[j].pc \in {"dropFailed", "drop"} /\ UNCHANGED <<part, ltmp>>
          /\ NoEvent \/ \E kind : Inject(kind)
          /\ (NoEvent /\ staged' = staged \ {Dump(j)})
             \/ (Inject("remove") /\ staged' = staged)
      BY <2>10 DEF DropDump
    <3>2. CASE job[j].pc = "dropFailed"
      <4>1. EndEntry(j, TRUE)
        BY <2>10, <3>2 DEF DropDump
      <4>. QED  BY <1>1, <2>1, <2>2, <2>5, <3>1, <3>2, <4>1, Counted
                DEF DumpThere, PartThere, Blamed
    <3>3. CASE job[j].pc = "drop"
      <4>1. Stays(j, IF job[j].ok THEN "promote" ELSE "discard")
        BY <1>1, <2>10, <3>3, GotoShape DEF DropDump
      <4>. QED  BY <1>1, <2>1, <2>2, <2>3, <3>1, <3>3, <4>1, Counted
                DEF DumpThere, PartThere, Blamed
    <3>. QED  BY <3>1, <3>2, <3>3
  <2>11. CASE Discard(j)
    <3>1. /\ job[j].pc = "discard" /\ UNCHANGED <<staged, ltmp>>
          /\ NoEvent \/ \E kind : Inject(kind)
          /\ (NoEvent /\ part' = [part EXCEPT ![File(j)] = Absent])
             \/ (Inject("remove") /\ part' = part)
          /\ EndEntry(j, TRUE)
      BY <2>11 DEF Discard
    <3>2. /\ \A n \in Name \ {File(j)} : part'[n] = part[n]
          /\ part'[File(j)] = Absent \/ Inject("remove")
      BY <2>1, <3>1 DEF IInv, TypeOK
    <3>. QED  BY <1>1, <2>1, <2>2, <2>5, <3>1, <3>2, Counted
              DEF DumpThere, PartThere, Blamed
  <2>12. CASE Promote(j)
    <3>1. /\ job[j].pc = "promote" /\ UNCHANGED <<staged, ltmp>> /\ NoEvent
          /\ part' = [part EXCEPT ![File(j)] = Absent]
          /\ EndEntry(j, FALSE) \/ Goto(j, "unlink")
      BY <2>12 DEF Promote
    <3>2. /\ \A n \in Name \ {File(j)} : part'[n] = part[n]
          /\ part'[File(j)] = Absent
      BY <2>1, <3>1 DEF IInv, TypeOK
    <3>3. /\ Kept(j) /\ job'[j].pc \in {"loop", "unlink"}
          /\ job'[j].failed => job[j].failed
      BY <1>1, <2>3, <2>5, <3>1, GotoShape
    <3>. QED  BY <1>1, <2>1, <2>2, <3>1, <3>2, <3>3, Counted
              DEF DumpThere, PartThere, Blamed, Kept
  <2>13. CASE FailPromote(j)
    <3>1. /\ job[j].pc = "promote" /\ UNCHANGED fileVars
          /\ \E kind : Inject(kind)
          /\ Stays(j, "discard")
      BY <1>1, <2>13, GotoShape DEF FailPromote
    <3>. QED  BY <1>1, <2>1, <2>2, <2>3, <3>1, Counted
              DEF DumpThere, PartThere, Blamed, fileVars
  <2>14. CASE RemoveStaleLink(j)
    <3>1. /\ job[j].pc = "unlink" /\ UNCHANGED <<staged, part>>
          /\ NoEvent \/ \E kind : Inject(kind)
          /\ ltmp' = [ltmp EXCEPT ![At(j)] = Absent]
             \/ (Inject("remove") /\ ltmp' = ltmp)
          /\ Stays(j, "link")
      BY <1>1, <2>14, GotoShape DEF RemoveStaleLink
    <3>2. /\ \A p \in Place \ {At(j)} : ltmp'[p] = ltmp[p]
          /\ ltmp'[At(j)] = Absent \/ Inject("remove")
      BY <2>1, <3>1 DEF IInv, TypeOK
    <3>. QED  BY <1>1, <2>1, <2>2, <2>3, <3>1, <3>2, Counted
              DEF DumpThere, PartThere, Blamed
  <2>15. CASE MakeLink(j)
    <3>1. /\ job[j].pc = "link" /\ UNCHANGED <<staged, part>> /\ NoEvent
          /\ \E f : ltmp' = [ltmp EXCEPT ![At(j)] = f]
          /\ Stays(j, "swap")
      BY <1>1, <2>15, GotoShape DEF MakeLink
    <3>2. \A p \in Place \ {At(j)} : ltmp'[p] = ltmp[p]
      BY <2>1, <3>1 DEF IInv, TypeOK
    <3>. QED  BY <1>1, <2>1, <2>2, <2>3, <3>1, <3>2, Counted
              DEF DumpThere, PartThere, Blamed
  <2>16. CASE SwapLink(j)
    <3>1. /\ job[j].pc = "swap" /\ UNCHANGED <<staged, part>> /\ NoEvent
          /\ ltmp' = [ltmp EXCEPT ![At(j)] = Absent]
          /\ EndEntry(j, FALSE)
      BY <2>16 DEF SwapLink
    <3>2. \A p \in Place \ {At(j)} : ltmp'[p] = ltmp[p]
      BY <2>1, <3>1 DEF IInv, TypeOK
    <3>. QED  BY <1>1, <2>1, <2>2, <2>5, <3>1, <3>2, Counted
              DEF DumpThere, PartThere, Blamed
  <2>17. CASE FailLink(j)
    <3>1. /\ job[j].pc \in {"link", "swap"} /\ UNCHANGED fileVars
          /\ NoEvent \/ \E kind : Inject(kind)
          /\ \/ \E kind : Inject(kind)
             \/ job[j].pc = "link" /\ ltmp[At(j)] # Absent
          /\ EndEntry(j, TRUE)
      BY <2>17 DEF FailLink
    <3>. QED  BY <1>1, <2>1, <2>2, <2>5, <3>1, Counted
              DEF DumpThere, PartThere, Blamed, fileVars
  <2>. QED
    BY <1>3, <2>4, <2>6, <2>7, <2>8, <2>9, <2>10, <2>11, <2>12, <2>13, <2>14,
       <2>15, <2>16, <2>17 DEF CopyStep, GzipStep, PublishStep
<1>4. ASSUME CopyStep(j) \/ GzipStep(j) \/ PublishStep(j)
      PROVE  job[j].pc \in Steps
  BY <1>4, StepOnly
<1>. QED  BY <1>2, <1>3, <1>4 DEF PassStep

\* Nothing but a pass that copies makes or fails anything.
LEMMA OutsideTidy ==
    ASSUME IInv, TidyInv,
           (\E j \in Jobs : StartPass(j)) \/ Environment \/ UNCHANGED vars
    PROVE  TidyInv'
<1>1. /\ OwnedInv /\ BlameInv /\ BoxOK /\ JobsOK
      /\ \A k \in Jobs : job[k].since \in Int /\ job[k].since <= spent
  BY TypeParts, BoundsAssumption DEF TidyInv, IInv, JobsOK, Job, BlameInv
<1>2. ASSUME NEW j \in Jobs, StartPass(j) PROVE TidyInv'
  <2>1. /\ job[j].pc \in Resting /\ job'[j].pc = "loop"
        /\ ~job'[j].failed /\ ~job'[j].cancelled /\ job'[j].since = spent
        /\ NoEvent \/ \E kind : Inject(kind)
        /\ \A k \in Jobs \ {j} : job'[k] = job[k]
        /\ UNCHANGED fileVars
    BY <1>2, FireShape DEF StartPass
  <2>2. OwnedInv'
    BY <1>1, <2>1, Counted, OwnedElsewhere DEF Resting, Steps
  <2>3. spent \in Nat /\ spent' \in Nat /\ spent' >= spent
    BY <1>1, <2>1, Counted
  <2>4. ASSUME NEW k \in Jobs
        PROVE  /\ job'[k].since <= spent'
               /\ k \notin VacuumJobs /\ Blamed(k)' => spent' > job'[k].since
    <3>1. CASE k = j
      BY <2>1, <2>3, <3>1 DEF Blamed
    <3>2. CASE k # j
      <4>1. Blamed(k)' = Blamed(k) /\ job'[k] = job[k]
        BY <2>1, <3>2 DEF Blamed, At, cur, fileVars
      <4>. QED  BY <1>1, <2>3, <4>1 DEF BlameInv
    <3>. QED  BY <3>1, <3>2
  <2>. QED  BY <2>2, <2>4 DEF TidyInv, BlameInv
<1>3. ASSUME UNCHANGED <<job, fileVars>>, NoEvent \/ \E kind : Inject(kind)
      PROVE  TidyInv'
  <2>1. OwnedInv'
    BY <1>1, <1>3, Counted, OwnedElsewhere
  <2>2. /\ spent \in Nat /\ spent' \in Nat /\ spent' >= spent
        /\ \A k \in Jobs : Blamed(k)' = Blamed(k)
    BY <1>1, <1>3, Counted DEF Blamed, At, cur, fileVars
  <2>. QED  BY <1>1, <1>3, <2>1, <2>2 DEF TidyInv, BlameInv
<1>4. ASSUME NEW j \in Jobs, Cancel(j) PROVE TidyInv'
  <2>1. /\ job' = [job EXCEPT ![j].cancelled = TRUE]
        /\ UNCHANGED fileVars /\ Inject("cancel")
    BY <1>4 DEF Cancel
  <2>2. /\ \A k \in Jobs \ {j} : job'[k] = job[k]
        /\ job'[j].pc = job[j].pc /\ job'[j].cur = job[j].cur
        /\ job'[j].at = job[j].at /\ job'[j].since = job[j].since
    BY <1>1, <2>1 DEF JobsOK, Job
  <2>3. OwnedInv'
    BY <1>1, <2>1, <2>2, Counted, OwnedElsewhere
  <2>4. BlameInv'
    BY <1>1, <2>1, <2>2, BlameStep DEF fileVars
  <2>. QED  BY <2>3, <2>4 DEF TidyInv
<1>5. CASE Crash
  <2>1. /\ job' = [j \in Jobs |-> IdleJob] /\ Inject("crash")
        /\ \A j \in Jobs : \E k \in Jobs : job[k].pc \notin Resting
    BY <1>5 DEF Crash
  <2>2. untidy' /\ spent' \in Nat
    BY <1>1, <2>1, Counted
  <2>. QED  BY <2>1, <2>2
            DEF TidyInv, OwnedInv, BlameInv, Blamed, IdleJob
<1>6. CASE Environment /\ ~Crash /\ ~(\E j \in Jobs : Cancel(j))
  <2>1. UNCHANGED <<job, fileVars>> /\ (NoEvent \/ \E kind : Inject(kind))
    BY <1>6 DEF Environment, Tick, SetBack, Reload, Commit, ReplaceSource,
                ClosePools, CloseIdle
  <2>. QED  BY <1>3, <2>1
<1>7. CASE UNCHANGED vars
  BY <1>3, <1>7 DEF vars, fileVars, NoEvent
<1>. QED  BY <1>2, <1>4, <1>5, <1>6, <1>7

\* The two hold in every reachable state.
LEMMA Tidied == Spec => []TidyInv
<1>1. Init => TidyInv
  BY BoundsAssumption
     DEF Init, TidyInv, OwnedInv, BlameInv, Blamed, IdleJob
<1>2. IInv /\ TidyInv /\ [Next]_vars => TidyInv'
  BY PassTidy, OutsideTidy DEF Next
<1>. QED  BY <1>1, <1>2, Inductive, PTL DEF Spec

\* When no pass runs and none has crashed, and os.Remove worked, no dump and no
\* .tmp file is left, whatever else failed: every error path of handleFile
\* removes what the pass had made.
THEOREM NothingStays == Spec => []NothingLeftBehind
<1>1. TidyInv => NothingLeftBehind
  <2>. SUFFICES ASSUME TidyInv, ~untidy, \A j \in Jobs : job[j].pc \in Resting
                PROVE  staged = {} /\ \A n \in Name : part[n] = Absent
    BY DEF NothingLeftBehind
  <2>1. \A j \in Jobs : ~DumpThere(j) /\ ~PartThere(j)
    BY DEF DumpThere, PartThere, Resting
  <2>. QED  BY <2>1 DEF TidyInv, OwnedInv
<1>. QED  BY <1>1, Tidied, PTL

\* A pass of the online job that returns an error met an event of its own: no
\* leftover of an earlier crash or failure makes a later pass fail.
THEOREM ErrorsHaveCauses == Spec => []FailureHasItsCause
<1>1. TidyInv => FailureHasItsCause
  BY DEF TidyInv, BlameInv, Blamed, FailureHasItsCause
<1>. QED  BY <1>1, Tidied, PTL

(***************************************************************************)
(* A snapshot holds what its name says.                                    *)
(***************************************************************************)

\* The data d holds every change made to source s before t.
Holds(s, t, d) == \A u \in contents[s] : u < t => u \in d

\* What the pass of engine j has copied holds what was there when it started.
CopyInv(j) ==
    /\ job[j].at <= now
    /\ (\/ job[j].pc \in {"gzip", "zipping"}
        \/ job[j].pc = "copying" /\ j \in VacuumJobs)
            => Holds(cur(j).src, job[j].at, job[j].got.data)
    /\ job[j].pc = "zipping" => ~part[File(j)].whole
    /\ job[j].pc = "promote" \/ (job[j].pc = "drop" /\ job[j].ok)
            => (part[File(j)].whole
                    => Holds(cur(j).src, job[j].at, part[File(j)].data))

PoolsLive == \A j \in Jobs, s \in Sources :
                pool[j][s] # Absent => pool[j][s].file = Live

SnapsHold ==
    \A n \in Name : (snap[n] # Absent /\ snap[n].whole) =>
        /\ n.at <= now
        /\ \E e \in Entries : /\ Active(e) /\ PlaceOf(e) = <<n.dir, n.id>>
                               /\ Holds(e.src, n.at, snap[n].data)

CoverInv == PoolsLive /\ SnapsHold /\ \A j \in Jobs : CopyInv(j)

\* The events for which the times in the names can be trusted: the clock is not
\* set back, and no file is put at a source path behind a pooled connection.
Dated == Events \cap {"replace", "clock"} = {}

\* The same where a place stands for one source, and no gzip tail is lost.
Trusted == OneSource /\ Events \cap {"close", "replace", "clock"} = {}

\* A pooled connection that was used or opened by a pass reads the live file.
LEMMA PoolStep ==
    ASSUME IInv, PoolsLive, NEW j \in Jobs, PassStep(j)
    PROVE  PoolsLive'
<1>1. PoolOK
  BY TypeParts DEF IInv
<1>2. ASSUME pool' = pool PROVE PoolsLive'
  BY <1>2 DEF PoolsLive
<1>3. ASSUME NEW err, EndEntry(j, err), job[j].pc \in Steps PROVE PoolsLive'
  <2>1. cur(j).src \in Sources /\ pool[j][cur(j).src] # Absent
    BY <1>3, StepFacts
  <2> DEFINE c == [pool[j][cur(j).src] EXCEPT !.used = now]
  <2>2. c.file = pool[j][cur(j).src].file
    BY <1>1, <2>1 DEF PoolOK, Conn
  <2>3. pool' = [pool EXCEPT ![j] = [pool[j] EXCEPT ![cur(j).src] = c]]
    BY <1>3 DEF EndEntry
  <2>. HIDE DEF c
  <2>. QED  BY <1>1, <2>1, <2>2, <2>3 DEF PoolOK, PoolsLive
<1>4. ASSUME NEW e \in job[j].todo, OpenSource(j, e) PROVE PoolsLive'
  <2> DEFINE c == [file |-> Live, used |-> now]
  <2>1. pool' = pool \/ pool' = [pool EXCEPT ![j][e.src] = c]
    BY <1>4 DEF OpenSource
  <2>2. c.file = Live
    OBVIOUS
  <2>. HIDE DEF c
  <2>. QED  BY <1>1, <2>1, <2>2 DEF PoolOK, PoolsLive
<1>5. CopyStep(j) => pool' = pool
  BY DEF CopyStep, StartCopy, FinishCopy, FailCopy
<1>6. GzipStep(j) => pool' = pool \/ \E err : EndEntry(j, err)
  BY DEF GzipStep, StartGzip, FinishGzip, LoseTail, FailGzip, DropDump
<1>7. PublishStep(j) => pool' = pool \/ \E err : EndEntry(j, err)
  BY DEF PublishStep, Discard, Promote, FailPromote, RemoveStaleLink, MakeLink,
         SwapLink, FailLink
<1>8. \/ AbortPass(j) \/ EndPass(j)
      \/ \E e \in job[j].todo : SkipEntry(j, e) \/ RefuseEntry(j, e)
      => pool' = pool
  BY DEF AbortPass, EndPass, SkipEntry, RefuseEntry
<1>. QED  BY <1>2, <1>3, <1>4, <1>5, <1>6, <1>7, <1>8, StepOnly DEF PassStep

\* A step of engine j that no source and no clock moves with: what the other
\* passes have copied is untouched.
LEMMA CoverStep ==
    ASSUME IInv, CoverInv, NEW j \in Jobs, UNCHANGED envVars,
           \A k \in Jobs \ {j} : job'[k] = job[k],
           job[j].pc \in Steps \/ part' = part,
           \A n \in Name \ {File(j)} : part'[n] = part[n],
           PoolsLive', SnapsHold', CopyInv(j)'
    PROVE  CoverInv'
<1>1. now' = now /\ contents' = contents
  BY DEF envVars
<1>2. ASSUME NEW k \in Jobs \ {j} PROVE CopyInv(k)'
  <2>1. CopyInv(k) /\ cur(k)' = cur(k) /\ File(k)' = File(k) /\ job'[k] = job[k]
    BY DEF CoverInv, cur, File
  <2>2. CASE job[k].pc \in {"zipping", "promote", "drop"}
    <3>1. job[k].pc \in Steps
      BY <2>2 DEF Steps
    <3>2. part'[File(k)] = part[File(k)]
      BY <3>1, StepFacts, Isolated
    <3>. QED  BY <1>1, <2>1, <2>2, <3>2 DEF CopyInv, Holds
  <2>3. CASE job[k].pc \notin {"zipping", "promote", "drop"}
    BY <1>1, <2>1, <2>3 DEF CopyInv, Holds
  <2>. QED  BY <2>2, <2>3
<1>. QED  BY <1>2 DEF CoverInv

\* Every step of a pass keeps it: a copy is made after the time in its name was
\* taken, and reads all that was committed by then.
LEMMA PassCover ==
    ASSUME IInv, CoverInv, NEW j \in Jobs, PassStep(j)
    PROVE  CoverInv'
<1>1. /\ PoolsLive /\ PoolsLive' /\ SnapsHold /\ CopyInv(j)
      /\ BoxOK /\ JobsOK /\ FilesOK
  BY PoolStep, TypeParts DEF CoverInv, IInv
<1>2. ASSUME \/ AbortPass(j) \/ EndPass(j)
             \/ \E e \in job[j].todo :
                    SkipEntry(j, e) \/ RefuseEntry(j, e) \/ OpenSource(j, e)
      PROVE  CoverInv'
  <2>1. /\ Kept(j) /\ job'[j].pc \in {"loop", "done", "copy"}
        /\ UNCHANGED <<envVars, fileVars>>
    BY <1>2, LoopShape
  <2>2. now' = now /\ contents' = contents /\ snap' = snap /\ part' = part
    BY <2>1 DEF envVars, fileVars
  <2>3. SnapsHold'
    BY <1>1, <2>2 DEF SnapsHold, Holds
  <2>4. CopyInv(j)'
    BY <1>1, <2>1, <2>2 DEF CopyInv, Kept
  <2>. QED  BY <1>1, <2>1, <2>2, <2>3, <2>4, CoverStep DEF Kept
<1>3. ASSUME CopyStep(j) \/ GzipStep(j) \/ PublishStep(j), job[j].pc \in Steps
      PROVE  CoverInv'
  <2>1. /\ File(j) \in Name /\ cur(j).gz \in BOOLEAN /\ cur(j).src \in Sources
        /\ pool[j][cur(j).src] # Absent
    BY <1>3, StepFacts
  <2>2. Read(j, cur(j).src) = contents[cur(j).src]
    BY <1>1, <2>1 DEF PoolsLive, Read
  <2>3. ASSUME UNCHANGED envVars, Kept(j), snap' = snap,
               \A n \in Name \ {File(j)} : part'[n] = part[n], CopyInv(j)'
        PROVE  CoverInv'
    <3>1. now' = now /\ contents' = contents
      BY <2>3 DEF envVars
    <3>2. SnapsHold'
      BY <1>1, <2>3, <3>1 DEF SnapsHold, Holds
    <3>. QED  BY <1>1, <1>3, <2>3, <3>2, CoverStep DEF Kept
  <2>4. ASSUME UNCHANGED envVars
        PROVE  now' = now /\ contents' = contents
    BY <2>4 DEF envVars
  <2>5. ASSUME NEW l, Stays(j, l)
        PROVE  /\ Kept(j) /\ job'[j].pc = l /\ job'[j].at = job[j].at
               /\ File(j)' = File(j) /\ cur(j)' = cur(j)
    BY <2>5 DEF Stays, Kept, File, cur
  <2>6. ASSUME Kept(j), UNCHANGED envVars,
               job'[j].pc \in {"loop", "dropFailed", "discard", "unlink",
                               "link", "swap"}
        PROVE  CopyInv(j)'
    BY <1>1, <2>4, <2>6 DEF CopyInv, Kept
  <2>7. ASSUME NEW err \in BOOLEAN, EndEntry(j, err)
        PROVE  Kept(j) /\ job'[j].pc = "loop"
    BY <1>1, <2>7, EndShape DEF Ends
  <2>8. CASE StartCopy(j)
    <3>1. /\ Stays(j, "copying")
          /\ job'[j].got.data = contents[cur(j).src]
          /\ UNCHANGED <<envVars, snap>>
      BY <1>1, <2>2, <2>8, StartCopyShape DEF StartCopy
    <3>2. \A n \in Name \ {File(j)} : part'[n] = part[n]
      BY <1>1, <2>1, <2>8 DEF StartCopy, FilesOK
    <3>3. CopyInv(j)'
      BY <1>1, <2>4, <2>5, <3>1 DEF CopyInv, Holds
    <3>. QED  BY <2>3, <2>5, <3>1, <3>2, <3>3
  <2>9. CASE FinishCopy(j)
    <3>1. job[j].pc = "copying" /\ UNCHANGED <<envVars, snap>>
      BY <2>9 DEF FinishCopy
    <3>2. Holds(cur(j).src, job[j].at, Returned(j))
      BY <1>1, <2>2, <3>1 DEF CopyInv, Holds, Returned
    <3>3. Whole(Returned(j)).data = Returned(j)
      BY DEF Whole
    <3>4. CASE cur(j).gz
      <4>1. /\ Stays(j, "gzip") /\ job'[j].got = Whole(Returned(j))
            /\ part' = part
        BY <1>1, <2>9, <3>4, FinishCopyShape
      <4>2. CopyInv(j)'
        BY <1>1, <2>4, <2>5, <3>1, <3>2, <3>3, <4>1 DEF CopyInv, Holds
      <4>. QED  BY <2>3, <2>5, <3>1, <4>1, <4>2
    <3>5. CASE ~cur(j).gz
      <4>1. /\ Stays(j, "promote")
            /\ part' = [part EXCEPT ![File(j)] = Whole(Returned(j))]
        BY <1>1, <2>1, <2>9, <3>5, FinishCopyShape
      <4>2. /\ part'[File(j)].data = Returned(j)
            /\ \A n \in Name \ {File(j)} : part'[n] = part[n]
        BY <1>1, <2>1, <3>3, <4>1 DEF FilesOK
      <4>3. CopyInv(j)'
        BY <1>1, <2>4, <2>5, <3>1, <3>2, <4>1, <4>2 DEF CopyInv, Holds
      <4>. QED  BY <2>3, <2>5, <3>1, <4>1, <4>2, <4>3
    <3>. QED  BY <2>1, <3>4, <3>5
  <2>10. CASE FailCopy(j) \/ FailPromote(j)
    <3>1. /\ \E l \in {"dropFailed", "discard"} : Goto(j, l)
          /\ UNCHANGED <<envVars, fileVars>>
      BY <2>10 DEF FailCopy, FailPromote
    <3>2. Kept(j) /\ job'[j].pc \in {"dropFailed", "discard"}
      BY <1>1, <2>5, <3>1, GotoShape
    <3>. QED  BY <2>3, <2>6, <3>1, <3>2 DEF fileVars
  <2>11. CASE StartGzip(j)
    <3>1. /\ job[j].pc = "gzip" /\ UNCHANGED <<envVars, snap>>
          /\ Stays(j, "zipping") /\ job'[j].got = job[j].got
          /\ part' = [part EXCEPT ![File(j)] = Partial]
      BY <1>1, <2>11, GotoShape DEF StartGzip
    <3>2. /\ \A n \in Name \ {File(j)} : part'[n] = part[n]
          /\ ~part'[File(j)].whole
      BY <1>1, <2>1, <3>1 DEF FilesOK, Partial
    <3>3. CopyInv(j)'
      BY <1>1, <2>4, <2>5, <3>1, <3>2 DEF CopyInv, Holds
    <3>. QED  BY <2>3, <2>5, <3>1, <3>2, <3>3
  <2>12. CASE FinishGzip(j) \/ LoseTail(j) \/ FailGzip(j)
    <3>1. /\ Stays(j, "drop") /\ job'[j].ok \in BOOLEAN
          /\ job'[j].ok => FinishGzip(j) \/ LoseTail(j)
      BY <1>1, <2>12, ZippedShape
    <3>2. LoseTail(j) => part' = part /\ job[j].pc = "zipping"
      BY DEF LoseTail, fileVars
    <3>3. UNCHANGED <<envVars, snap>>
      BY <2>12 DEF FinishGzip, LoseTail, FailGzip, fileVars
    <3>4. part' = part \/ part' = [part EXCEPT ![File(j)] = job[j].got]
      BY <2>12 DEF FinishGzip, LoseTail, FailGzip, fileVars
    <3>5. \A n \in Name \ {File(j)} : part'[n] = part[n]
      BY <1>1, <2>1, <3>4 DEF FilesOK
    <3>6. FinishGzip(j) => part'[File(j)] = job[j].got /\ job[j].pc = "zipping"
      BY <1>1, <2>1 DEF FinishGzip, FilesOK
    <3>7. CopyInv(j)'
      BY <1>1, <2>4, <2>5, <3>1, <3>2, <3>3, <3>6 DEF CopyInv, Holds
    <3>. QED  BY <2>3, <2>5, <3>1, <3>3, <3>5, <3>7
  <2>13. CASE DropDump(j)
    <3>1. job[j].pc \in {"dropFailed", "drop"} /\ UNCHANGED <<envVars, part, snap>>
      BY <2>13 DEF DropDump
    <3>2. CASE job[j].pc = "dropFailed"
      <4>1. EndEntry(j, TRUE)
        BY <2>13, <3>2 DEF DropDump
      <4>. QED  BY <2>3, <2>6, <2>7, <3>1, <4>1
    <3>3. CASE job[j].pc = "drop"
      <4>1. Stays(j, IF job[j].ok THEN "promote" ELSE "discard")
        BY <1>1, <2>13, <3>3, GotoShape DEF DropDump
      <4>2. CopyInv(j)'
        BY <1>1, <2>4, <2>5, <3>1, <3>3, <4>1 DEF CopyInv, Holds
      <4>. QED  BY <2>3, <2>5, <3>1, <4>1, <4>2
    <3>. QED  BY <3>1, <3>2, <3>3
  <2>14. CASE Discard(j) \/ RemoveStaleLink(j) \/ MakeLink(j) \/ SwapLink(j)
              \/ FailLink(j)
    <3>1. UNCHANGED <<envVars, snap>>
      BY <2>14 DEF Discard, RemoveStaleLink, MakeLink, SwapLink, FailLink, fileVars
    <3>2. part' = part \/ part' = [part EXCEPT ![File(j)] = Absent]
      BY <2>14 DEF Discard, RemoveStaleLink, MakeLink, SwapLink, FailLink, fileVars
    <3>3. \/ \E err \in BOOLEAN : EndEntry(j, err)
          \/ \E l \in {"link", "swap"} : Goto(j, l)
      BY <2>14 DEF Discard, RemoveStaleLink, MakeLink, SwapLink, FailLink
    <3>4. Kept(j) /\ job'[j].pc \in {"loop", "link", "swap"}
      BY <1>1, <2>5, <2>7, <3>3, GotoShape
    <3>5. \A n \in Name \ {File(j)} : part'[n] = part[n]
      BY <1>1, <2>1, <3>2 DEF FilesOK
    <3>. QED  BY <2>3, <2>6, <3>1, <3>4, <3>5
  <2>15. CASE Promote(j)
    <3>1. /\ job[j].pc = "promote" /\ UNCHANGED envVars
          /\ snap' = [snap EXCEPT ![File(j)] = part[File(j)]]
          /\ part' = [part EXCEPT ![File(j)] = Absent]
          /\ EndEntry(j, FALSE) \/ Goto(j, "unlink")
      BY <2>15 DEF Promote
    <3>2. Kept(j) /\ job'[j].pc \in {"loop", "unlink"}
      BY <1>1, <2>5, <2>7, <3>1, GotoShape
    <3>3. \A n \in Name \ {File(j)} : part'[n] = part[n]
      BY <1>1, <2>1, <3>1 DEF FilesOK
    <3>4. ASSUME NEW n \in Name, snap'[n] # Absent, snap'[n].whole
          PROVE  /\ n.at <= now
                 /\ \E e \in Entries :
                        /\ Active(e) /\ PlaceOf(e) = <<n.dir, n.id>>
                        /\ Holds(e.src, n.at, snap'[n].data)
      <4>1. CASE n = File(j)
        <5>1. /\ n.at = job[j].at /\ <<n.dir, n.id>> = PlaceOf(cur(j))
              /\ snap'[n] = part[n]
          BY <1>1, <2>1, <3>1, <4>1 DEF File, NameOf, PlaceOf, FilesOK
        <5>2. cur(j) \in Entries /\ Active(cur(j))
          BY <1>1, <1>3 DEF JobsOK, cur
        <5>3. Holds(cur(j).src, n.at, snap'[n].data) /\ n.at <= now
          BY <1>1, <3>1, <3>4, <4>1, <5>1 DEF CopyInv
        <5>. QED  BY <5>1, <5>2, <5>3
      <4>2. CASE n # File(j)
        <5>1. snap'[n] = snap[n]
          BY <1>1, <3>1, <4>2 DEF FilesOK
        <5>. QED  BY <1>1, <3>4, <5>1 DEF SnapsHold
      <4>. QED  BY <4>1, <4>2
    <3>5. SnapsHold'
      BY <2>4, <3>1, <3>4 DEF SnapsHold, Holds
    <3>6. CopyInv(j)'
      BY <2>6, <3>1, <3>2
    <3>. QED  BY <1>1, <1>3, <3>1, <3>2, <3>3, <3>5, <3>6, CoverStep DEF Kept
  <2>. QED
    BY <1>3, <2>8, <2>9, <2>10, <2>11, <2>12, <2>13, <2>14, <2>15
       DEF CopyStep, GzipStep, PublishStep
<1>. QED  BY <1>2, <1>3, StepOnly DEF PassStep

\* A change of a source comes too late for every name that exists.
LEMMA OutsideCover ==
    ASSUME IInv, CoverInv, Dated,
           (\E j \in Jobs : StartPass(j)) \/ Environment \/ UNCHANGED vars
    PROVE  CoverInv'
<1>1. /\ PoolsLive /\ SnapsHold /\ (\A j \in Jobs : CopyInv(j))
      /\ BoxOK /\ JobsOK /\ PoolOK
      /\ now \in Int /\ (\A j \in Jobs : job[j].at \in Int)
      /\ \A n \in Name : n.at \in Int
  BY TypeParts, BoundsAssumption
     DEF CoverInv, IInv, JobsOK, Job, BoxOK, Time, Name
<1>2. ASSUME NEW s \in Sources, NEW t \in Int, NEW d, t <= now, Holds(s, t, d),
             contents' = contents \/ \E r : Commit(r)
      PROVE  Holds(s, t, d)'
  <2>1. CASE contents' = contents
    BY <1>2, <2>1 DEF Holds
  <2>2. CASE \E r : Commit(r)
    <3>1. contents'[s] \subseteq contents[s] \cup {now}
      BY <1>1, <2>2 DEF Commit, BoxOK
    <3>. QED  BY <1>1, <1>2, <3>1 DEF Holds
  <2>. QED  BY <1>2, <2>1, <2>2
<1>3. ASSUME contents' = contents \/ (\E r : Commit(r)),
             now' \in Int, now' >= now, UNCHANGED <<job, fileVars>>, PoolsLive'
      PROVE  CoverInv'
  <2>1. SnapsHold'
    <3>1. snap' = snap
      BY <1>3 DEF fileVars
    <3>2. \A e \in Entries : Active(e) => e.src \in Sources
      BY EntryTypes
    <3>. QED  BY <1>1, <1>2, <1>3, <3>1, <3>2 DEF SnapsHold
  <2>2. ASSUME NEW j \in Jobs PROVE CopyInv(j)'
    <3>1. CopyInv(j) /\ cur(j)' = cur(j) /\ File(j)' = File(j) /\ part' = part
      BY <1>1, <1>3 DEF cur, File, fileVars
    <3>2. CASE job[j].pc \in Steps
      <4>1. cur(j).src \in Sources
        BY <3>2, StepFacts
      <4>. QED  BY <1>1, <1>2, <1>3, <3>1, <4>1 DEF CopyInv
    <3>3. CASE job[j].pc \notin Steps
      BY <1>1, <1>3, <3>1, <3>3 DEF CopyInv, Steps
    <3>. QED  BY <3>2, <3>3
  <2>. QED  BY <1>3, <2>1, <2>2 DEF CoverInv
<1>4. ASSUME pool' = pool PROVE PoolsLive'
  BY <1>1, <1>4 DEF PoolsLive
<1>5. ASSUME NEW j \in Jobs, StartPass(j) PROVE CoverInv'
  <2>1. /\ job'[j].pc = "loop" /\ job'[j].at = now
        /\ \A k \in Jobs \ {j} : job'[k] = job[k]
        /\ UNCHANGED <<envVars, pool, fileVars>>
    BY <1>5, FireShape DEF StartPass
  <2>2. now' = now /\ contents' = contents /\ snap' = snap /\ part' = part
    BY <2>1 DEF envVars, fileVars
  <2>3. SnapsHold'
    BY <1>1, <2>2 DEF SnapsHold, Holds
  <2>4. CopyInv(j)'
    BY <1>1, <2>1, <2>2 DEF CopyInv
  <2>. QED  BY <1>4, <2>1, <2>2, <2>3, <2>4, CoverStep
<1>6. ASSUME NEW j \in Jobs, Cancel(j) PROVE CoverInv'
  <2>1. /\ job' = [job EXCEPT ![j].cancelled = TRUE]
        /\ UNCHANGED <<envVars, pool, fileVars>>
    BY <1>6 DEF Cancel
  <2>2. /\ \A k \in Jobs \ {j} : job'[k] = job[k]
        /\ job'[j].pc = job[j].pc /\ job'[j].cur = job[j].cur
        /\ job'[j].at = job[j].at /\ job'[j].got = job[j].got
        /\ job'[j].ok = job[j].ok
    BY <1>1, <2>1 DEF JobsOK, Job
  <2>3. now' = now /\ contents' = contents /\ snap' = snap /\ part' = part
    BY <2>1 DEF envVars, fileVars
  <2>4. SnapsHold'
    BY <1>1, <2>3 DEF SnapsHold, Holds
  <2>5. CopyInv(j)'
    BY <1>1, <2>2, <2>3 DEF CopyInv, Holds, cur, File
  <2>. QED  BY <1>4, <2>1, <2>2, <2>3, <2>4, <2>5, CoverStep
<1>7. CASE Crash
  <2>1. /\ job' = [j \in Jobs |-> IdleJob]
        /\ pool' = [j \in Jobs |-> [s \in Sources |-> Absent]]
        /\ UNCHANGED <<envVars, fileVars>>
    BY <1>7 DEF Crash
  <2>2. now' = now /\ contents' = contents /\ snap' = snap
    BY <2>1 DEF envVars, fileVars
  <2>3. SnapsHold'
    BY <1>1, <2>2 DEF SnapsHold, Holds
  <2>4. \A j \in Jobs : CopyInv(j)'
    BY <1>1, <2>1, <2>2 DEF CopyInv, IdleJob, BoxOK, Time
  <2>5. PoolsLive'
    BY <2>1 DEF PoolsLive
  <2>. QED  BY <2>3, <2>4, <2>5 DEF CoverInv
<1>8. CASE Tick \/ Reload \/ UNCHANGED vars
  <2>1. /\ contents' = contents /\ UNCHANGED <<job, fileVars>> /\ pool' = pool
        /\ now' \in Int /\ now' >= now
    BY <1>1, <1>8 DEF Tick, Reload, vars, fileVars
  <2>. QED  BY <1>3, <1>4, <2>1
<1>9. CASE \E s \in Sources : Commit(s)
  <2>1. (\E r : Commit(r)) /\ UNCHANGED <<now, pool, job, fileVars>>
    BY <1>9 DEF Commit
  <2>. QED  BY <1>1, <1>3, <1>4, <2>1
<1>10. CASE \E j \in Jobs : ClosePools(j) \/ \E s \in Sources : CloseIdle(j, s)
  <2>1. /\ UNCHANGED <<envVars, job, fileVars>>
        /\ \A k \in Jobs, s \in Sources :
                pool'[k][s] = Absent \/ pool'[k][s] = pool[k][s]
    BY <1>1, <1>10 DEF ClosePools, CloseIdle, PoolOK
  <2>2. now' = now /\ contents' = contents /\ PoolsLive'
    BY <1>1, <2>1 DEF PoolsLive, envVars
  <2>. QED  BY <1>1, <1>3, <2>1, <2>2
<1>11. ~SetBack /\ \A s \in Sources : ~ReplaceSource(s)
  BY DEF SetBack, ReplaceSource, Inject, Dated
<1>. QED  BY <1>5, <1>6, <1>7, <1>8, <1>9, <1>10, <1>11 DEF Environment

LEMMA Covered == ASSUME Dated PROVE Spec => []CoverInv
<1>1. Init => CoverInv
  BY BoundsAssumption
     DEF Init, CoverInv, PoolsLive, SnapsHold, CopyInv, IdleJob, Time
<1>2. IInv /\ CoverInv /\ [Next]_vars => CoverInv'
  BY PassCover, OutsideCover DEF Next
<1>. QED  BY <1>1, <1>2, Inductive, PTL DEF Spec

\* A complete snapshot named t holds every change made before t to the source
\* of an entry of its place, also where a reload has given the place another
\* source, and with cut gzip streams beside it (handleFile takes the name
\* before poolConn reads the source).
WholeCoversItsTime ==
    \A n \in Name : (snap[n] # Absent /\ snap[n].whole) =>
        \E e \in Entries : /\ Active(e) /\ PlaceOf(e) = <<n.dir, n.id>>
                           /\ {t \in contents[e.src] : t < n.at} \subseteq snap[n].data

\* As long as the clock is not set back and no source file replaced, every
\* complete snapshot holds what its name says, of a source of its place.
THEOREM WholeHoldsItsTime ==
    ASSUME Dated
    PROVE  Spec => []WholeCoversItsTime
<1>1. CoverInv => WholeCoversItsTime
  BY DEF CoverInv, SnapsHold, Holds, WholeCoversItsTime
<1>. QED  BY <1>1, Covered, PTL

\* With names that can be trusted, a snapshot named t holds every change made
\* to its source before t, whatever pass, connection and retry made it: a
\* restore from it loses at most what came after the time in its name.
THEOREM SnapshotsHoldTheirTime ==
    ASSUME Trusted
    PROVE  Spec => []SnapshotCoversItsTime
<1>1. "close" \notin Events /\ Dated /\ OneSource
  BY DEF Trusted, Dated
<1>2. PromotedIsWhole /\ WholeCoversItsTime => SnapshotCoversItsTime
  BY <1>1 DEF PromotedIsWhole, WholeCoversItsTime, OneSource,
              SnapshotCoversItsTime
<1>3. Spec => []PromotedIsWhole
  BY <1>1, WholeUnlessCloseFails
<1>4. Spec => []WholeCoversItsTime
  BY <1>1, WholeHoldsItsTime
<1>. QED  BY <1>2, <1>3, <1>4, PTL

(***************************************************************************)
(* The engine implements the store of snapshots.                           *)
(***************************************************************************)

\* The steps of linkLatest, after the rename.
Linking == {"unlink", "link", "swap"}

\* The scan of the pass of engine j saw the newest snapshot of entry e.
SawNewest(j, e) ==
    \A t \in Stamps(PlaceOf(e)) :
        job[j].seen[BackupID(e)] # Absent /\ t <= job[j].seen[BackupID(e)]

\* What a pass has seen of the entries ahead of it is still the newest there,
\* until it has made a newer one itself.
SeenInv(j) ==
    /\ \E c \in Configs : job[j].todo \subseteq c[j]
    /\ job[j].pc \in Steps => job[j].cur \in job[j].todo /\ Due(j, cur(j))
    /\ \A e \in job[j].todo :
            (Active(e) /\ ~(job[j].pc \in Linking /\ e = cur(j)))
                => SawNewest(j, e)
    /\ job[j].pc \in Linking =>
            /\ job[j].at \in Stamps(At(j))
            /\ \A t \in Stamps(At(j)) : t <= job[j].at
    /\ job[j].pc = "swap" =>
            ltmp[At(j)] # Absent /\ ltmp[At(j)].at = job[j].at

PlainName(p, t) == [dir |-> p[1], id |-> p[2], at |-> t, gz |-> FALSE]

\* Both links of a place name the content of a plain snapshot of that place.
LinksNamed ==
    \A p \in Place :
        /\ link[p] # Absent => snap[PlainName(p, link[p].at)] = link[p].file
        /\ ltmp[p] # Absent => snap[PlainName(p, ltmp[p].at)] = ltmp[p].file

StoreInv == (\A j \in Jobs : SeenInv(j)) /\ SnapshotsSpaced /\ LinksNamed

\* What a rename to a final name does to the timestamps of the places.
LEMMA StampsAfter ==
    ASSUME FilesOK, NEW n \in Name, NEW f, f # Absent,
           snap' = [snap EXCEPT ![n] = f], NEW p \in Place
    PROVE  Stamps(p)' = IF p = <<n.dir, n.id>> THEN Stamps(p) \cup {n.at}
                                               ELSE Stamps(p)
<1>1. n.at \in Time /\ n.gz \in BOOLEAN /\ p = <<p[1], p[2]>>
  BY DEF Name, Place
<1>2. ASSUME NEW t \in Time, NEW z \in BOOLEAN
      PROVE  [dir |-> p[1], id |-> p[2], at |-> t, gz |-> z] \in Name
  BY DEF Name, Place
<1>3. ASSUME NEW t \in Time, NEW z \in BOOLEAN,
             [dir |-> p[1], id |-> p[2], at |-> t, gz |-> z] # n
      PROVE  snap'[[dir |-> p[1], id |-> p[2], at |-> t, gz |-> z]]
                = snap[[dir |-> p[1], id |-> p[2], at |-> t, gz |-> z]]
  BY <1>2, <1>3 DEF FilesOK
<1>4. snap'[n] = f
  BY DEF FilesOK
<1>5. CASE p = <<n.dir, n.id>>
  <2>1. n = [dir |-> p[1], id |-> p[2], at |-> n.at, gz |-> n.gz]
    BY <1>5 DEF Name
  <2>. QED  BY <1>1, <1>3, <1>4, <1>5, <2>1 DEF Stamps
<1>6. CASE p # <<n.dir, n.id>>
  <2>1. ASSUME NEW t \in Time, NEW z \in BOOLEAN
        PROVE  [dir |-> p[1], id |-> p[2], at |-> t, gz |-> z] # n
    <3>. SUFFICES ASSUME [dir |-> p[1], id |-> p[2], at |-> t, gz |-> z] = n
                  PROVE  FALSE
      OBVIOUS
    <3>1. n.dir = p[1] /\ n.id = p[2]
      OBVIOUS
    <3>. QED  BY <1>1, <1>6, <3>1
  <2>. QED  BY <1>3, <1>6, <2>1 DEF Stamps
<1>. QED  BY <1>5, <1>6

\* The scan finds the newest snapshot of every entry of the job: with one entry
\* for an id there is one directory to find it in (latestBackupFiles).
LEMMA ScanNewest ==
    ASSUME Orderly, NEW c \in Configs, NEW j \in Jobs, NEW e \in c[j],
           Active(e), NEW t \in Stamps(PlaceOf(e))
    PROVE  /\ Scan(c[j], {})[BackupID(e)] # Absent
           /\ t <= Scan(c[j], {})[BackupID(e)]
<1> DEFINE id == BackupID(e)
           Found == {d \in Dirs \ {} :
                        /\ \E f \in c[j] : Active(f) /\ PlaceOf(f) = <<d, id>>
                        /\ Stamps(<<d, id>>) # {}}
<1>1. e \in Entries /\ c[j] \subseteq Entries
  BY DEF Entries
<1>2. e.dir \in Dirs /\ id \in IDs
  BY <1>1, EntryTypes
<1>3. e.dir \in Found
  BY <1>2 DEF PlaceOf
<1>4. ASSUME NEW d \in Found PROVE d = e.dir
  <2>1. PICK f \in c[j] : Active(f) /\ PlaceOf(f) = <<d, id>>
    BY <1>4
  <2>2. f.dir = d /\ BackupID(f) = BackupID(e)
    BY <2>1 DEF PlaceOf
  <2>. QED  BY <2>1, <2>2 DEF Orderly
<1>5. Max(Found) = e.dir
  <2>1. Found \in SUBSET (1 .. NumDirs)
    BY DEF Dirs
  <2>. HIDE DEF Found
  <2>. QED  BY <1>3, <1>4, <2>1, MaxOfInterval, BoundsAssumption
<1>6. Scan(c[j], {})[id] = Max(Stamps(PlaceOf(e)))
  <2>1. Scan(c[j], {})[id] = IF Found = {} THEN Absent
                             ELSE Max(Stamps(<<Max(Found), id>>))
    BY <1>2 DEF Scan
  <2>. HIDE DEF Found
  <2>. QED  BY <1>3, <1>5, <2>1 DEF PlaceOf
<1>7. Stamps(PlaceOf(e)) \in SUBSET (0 .. MaxTime)
  BY DEF Stamps, Time
<1>8. /\ Max(Stamps(PlaceOf(e))) \in Stamps(PlaceOf(e))
      /\ t <= Max(Stamps(PlaceOf(e)))
  BY <1>7, MaxOfInterval, BoundsAssumption
<1>9. Max(Stamps(PlaceOf(e))) # Absent
  BY <1>7, <1>8, AbsentAssumption DEF Time
<1>. QED  BY <1>6, <1>8, <1>9

\* No other pass has an entry of the place a pass writes to.
LEMMA OthersApart ==
    ASSUME IInv, NEW j \in Jobs, NEW k \in Jobs, j # k, job[j].pc \in Steps,
           NEW f \in job[k].todo, Active(f)
    PROVE  PlaceOf(f) # At(j)
<1> DEFINE e == cur(j)
<1>1. Active(e)
  BY DEF IInv, TypeOK, cur
<1>2. PICK c \in Configs : e \in c[j] /\ (c = config \/ "reload" \in Events)
  BY DEF IInv, PassInv, Offered, cur
<1>3. PICK d \in Configs : f \in d[k] /\ (d = config \/ "reload" \in Events)
  BY DEF IInv, PassInv, Offered
<1>4. ~(e.dir = f.dir /\ BackupID(e) = BackupID(f))
  <2>1. c = d \/ "reload" \in Events
    BY <1>2, <1>3
  <2>. HIDE DEF e
  <2>. QED  BY <1>1, <1>2, <1>3, <2>1, OneWriterAssumption
<1>. QED  BY <1>4 DEF At, PlaceOf

\* Nor has the pass itself another entry of it.
LEMMA OwnApart ==
    ASSUME IInv, Orderly, NEW j \in Jobs, SeenInv(j), job[j].pc \in Steps,
           NEW f \in job[j].todo, Active(f), f # cur(j)
    PROVE  PlaceOf(f) # At(j)
<1>1. PICK c \in Configs : job[j].todo \subseteq c[j]
  BY DEF SeenInv
<1>2. cur(j) \in job[j].todo /\ Active(cur(j))
  BY DEF SeenInv, cur, IInv, TypeOK
<1>3. BackupID(f) # BackupID(cur(j))
  BY <1>1, <1>2 DEF Orderly
<1>. QED  BY <1>3 DEF At, PlaceOf

\* What a pass has seen stays the newest while another engine writes to its
\* own place.
LEMMA OthersSeen ==
    ASSUME IInv, NEW j \in Jobs, NEW k \in Jobs, j # k, SeenInv(k),
           job'[k] = job[k],
           \/ job[j].pc \in Steps
           \/ \A p \in Place : Stamps(p)' = Stamps(p) /\ ltmp'[p] = ltmp[p],
           \A p \in Place \ {At(j)} :
                Stamps(p)' = Stamps(p) /\ ltmp'[p] = ltmp[p]
    PROVE  SeenInv(k)'
<1>1. cur(k)' = cur(k) /\ At(k)' = At(k)
  BY DEF cur, At
<1>2. \A e : Due(k, e)' = Due(k, e)
  BY DEF Due
<1>3. ASSUME NEW e \in job[k].todo, Active(e), SawNewest(k, e)
      PROVE  SawNewest(k, e)'
  <2>1. PlaceOf(e) \in Place
    <3>1. e \in Entries
      BY DEF IInv, PassInv, Offered
    <3>. QED  BY <1>3, <3>1, EntryTypes
  <2>2. job[j].pc \in Steps => PlaceOf(e) # At(j)
    BY <1>3, OthersApart
  <2>3. Stamps(PlaceOf(e))' = Stamps(PlaceOf(e))
    BY <2>1, <2>2
  <2>. QED  BY <1>3, <2>3 DEF SawNewest
<1>4. ASSUME job[k].pc \in Steps
      PROVE  /\ Stamps(At(k))' = Stamps(At(k)) /\ ltmp'[At(k)] = ltmp[At(k)]
  <2>1. At(k) \in Place /\ (job[j].pc \in Steps => At(k) # At(j))
    BY <1>4, StepFacts, Isolated
  <2>. QED  BY <1>1, <2>1
<1>5. job[k].pc \in Linking \/ job[k].pc = "swap" => job[k].pc \in Steps
  BY DEF Linking, Steps
<1>. QED  BY <1>1, <1>2, <1>3, <1>4, <1>5 DEF SeenInv

\* A step of a pass that publishes nothing, from what it does to its own links
\* and its own list.
LEMMA QuietStep ==
    ASSUME IInv, StoreInv, NEW j \in Jobs, snap' = snap,
           \A k \in Jobs \ {j} : job'[k] = job[k],
           job[j].pc \in Steps \/ ltmp' = ltmp,
           \A p \in Place \ {At(j)} : ltmp'[p] = ltmp[p],
           SeenInv(j)', LinksNamed'
    PROVE  StoreInv'
<1>1. \A p : Stamps(p)' = Stamps(p)
  BY DEF Stamps
<1>2. \A k \in Jobs : SeenInv(k)'
  BY <1>1, OthersSeen DEF StoreInv
<1>3. SnapshotsSpaced'
  BY <1>1 DEF StoreInv, SnapshotsSpaced
<1>. QED  BY <1>2, <1>3 DEF StoreInv

\* A pass that moves on outside linkLatest knows what it knew.
LEMMA SeenMoves ==
    ASSUME NEW j \in Jobs, SeenInv(j), snap' = snap, NEW l, Stays(j, l),
           job[j].pc \in Steps, l \in Steps,
           l \notin Linking, job[j].pc \notin Linking
    PROVE  SeenInv(j)'
<1>1. \A p : Stamps(p)' = Stamps(p)
  BY DEF Stamps
<1>2. /\ job'[j].pc = l /\ job'[j].at = job[j].at /\ job'[j].seen = job[j].seen
      /\ job'[j].todo = job[j].todo /\ job'[j].cur = job[j].cur
      /\ cur(j)' = cur(j)
  BY DEF Stays, Kept, cur
<1>3. \A e : Due(j, e)' = Due(j, e) /\ SawNewest(j, e)' = SawNewest(j, e)
  BY <1>1, <1>2 DEF Due, SawNewest
<1>4. l # "swap"
  BY DEF Linking
<1>. QED  BY <1>2, <1>3, <1>4 DEF SeenInv

\* A pass that is done with an entry knows what it knew of the others.
LEMMA SeenEnds ==
    ASSUME NEW j \in Jobs, SeenInv(j), snap' = snap, NEW err, Ends(j, err)
    PROVE  SeenInv(j)'
<1>1. \A p : Stamps(p)' = Stamps(p)
  BY DEF Stamps
<1>2. /\ job'[j].pc = "loop" /\ job'[j].seen = job[j].seen
      /\ job'[j].todo = job[j].todo \ {cur(j)}
  BY DEF Ends, Kept, cur
<1>3. \A e : SawNewest(j, e)' = SawNewest(j, e)
  BY <1>1, <1>2 DEF SawNewest
<1>4. "loop" \notin Steps /\ "loop" \notin Linking
  BY DEF Steps, Linking
<1>5. \A e \in job'[j].todo : Active(e) => SawNewest(j, e)'
  BY <1>2, <1>3 DEF SeenInv
<1>. QED  BY <1>2, <1>4, <1>5 DEF SeenInv

\* The rename is of a snapshot newer than all those of its place, and by the
\* frequency of its entry.
LEMMA PromoteLater ==
    ASSUME IInv, Orderly, NEW j \in Jobs, SeenInv(j), Promote(j),
           NEW t \in Stamps(At(j))
    PROVE  t + cur(j).freq <= job[j].at /\ t < job[j].at
<1>1. job[j].pc = "promote" /\ job[j].pc \in Steps /\ job[j].pc \notin Linking
  BY DEF Promote, Steps, Linking
<1>2. /\ cur(j) \in Entries /\ Active(cur(j)) /\ job[j].at \in Int
      /\ job[j].seen \in [IDs -> Time \cup {Absent}]
  BY <1>1, BoundsAssumption DEF IInv, TypeOK, Job, cur, Time
<1>3. cur(j).freq \in Nat /\ cur(j).freq > 0 /\ BackupID(cur(j)) \in IDs
  BY <1>2, EntryTypes DEF Entry, Orderly
<1> DEFINE s == job[j].seen[BackupID(cur(j))]
<1>4. s # Absent /\ t <= s
  BY <1>1, <1>2 DEF SeenInv, SawNewest, At, cur
<1>5. s \in Int /\ t \in Int
  BY <1>2, <1>3, <1>4, BoundsAssumption DEF Time, Stamps
<1>6. job[j].at >= s + cur(j).freq
  <2>1. Due(j, cur(j))
    BY <1>1 DEF SeenInv
  <2>. QED  BY <1>4, <2>1 DEF Due, IsBackupDue
<1>. HIDE DEF s
<1>. QED  BY <1>2, <1>3, <1>4, <1>5, <1>6

\* The rename to the final name publishes a snapshot, and disturbs no link.
LEMMA PromoteStore ==
    ASSUME IInv, StoreInv, Orderly, NEW j \in Jobs, Promote(j)
    PROVE  /\ StoreInv'
           /\ \A p \in Place : Stamps(p)' = IF p = At(j)
                    THEN Stamps(p) \cup {job[j].at} ELSE Stamps(p)
<1>1. /\ job[j].pc = "promote" /\ job[j].pc \in Steps
      /\ job[j].pc \notin Linking /\ SeenInv(j)
  BY DEF Promote, Steps, Linking, StoreInv
<1>2. /\ File(j) \in Name /\ At(j) \in Place /\ cur(j).gz \in BOOLEAN
      /\ JobsOK /\ FilesOK /\ job[j].at \in Time
      /\ part[File(j)] # Absent
      /\ cur(j) \in Entries /\ Active(cur(j))
  BY <1>1, StepFacts DEF PassInv, Sound, JobsOK, cur
<1>3. /\ snap' = [snap EXCEPT ![File(j)] = part[File(j)]]
      /\ ltmp' = ltmp /\ link' = link
      /\ IF cur(j).gz THEN EndEntry(j, FALSE) ELSE Goto(j, "unlink")
  BY DEF Promote
<1>4. <<File(j).dir, File(j).id>> = At(j) /\ File(j).at = job[j].at
  BY DEF File, NameOf, At, PlaceOf
<1>5. \A p \in Place : Stamps(p)' = IF p = At(j)
                    THEN Stamps(p) \cup {job[j].at} ELSE Stamps(p)
  BY <1>2, <1>3, <1>4, StampsAfter
<1>6. \A t \in Stamps(At(j)) : t + cur(j).freq <= job[j].at /\ t < job[j].at
  BY <1>1, PromoteLater
<1>7. /\ job[j].at \in Int /\ \A p : Stamps(p) \subseteq Int
  BY <1>2, BoundsAssumption DEF Time, Stamps
<1>8. /\ Kept(j)
      /\ IF cur(j).gz THEN /\ job'[j].pc = "loop"
                           /\ job'[j].todo = job[j].todo \ {cur(j)}
                      ELSE /\ job'[j].pc = "unlink" /\ job'[j].cur = job[j].cur
                           /\ job'[j].todo = job[j].todo
  BY <1>2, <1>3, GotoShape, EndShape DEF Stays, Ends, cur
<1>9. ASSUME NEW e \in job[j].todo, Active(e), e # cur(j)
      PROVE  SawNewest(j, e)'
  <2>1. PlaceOf(e) # At(j)
    BY <1>1, <1>9, OwnApart
  <2>2. PlaceOf(e) \in Place
    <3>1. e \in Entries
      BY DEF IInv, PassInv, Offered
    <3>. QED  BY <1>9, <3>1, EntryTypes
  <2>3. Stamps(PlaceOf(e))' = Stamps(PlaceOf(e))
    BY <1>5, <2>1, <2>2
  <2>4. SawNewest(j, e)
    BY <1>1, <1>9 DEF SeenInv
  <2>. QED  BY <1>8, <2>3, <2>4 DEF SawNewest, Kept
<1>10. SeenInv(j)'
  <2>1. PICK c \in Configs : job[j].todo \subseteq c[j]
    BY <1>1 DEF SeenInv
  <2>2. CASE cur(j).gz
    <3>1. "loop" \notin Steps /\ "loop" \notin Linking
      BY DEF Steps, Linking
    <3>. QED  BY <1>8, <1>9, <2>1, <2>2, <3>1 DEF SeenInv
  <2>3. CASE ~cur(j).gz
    <3>1. /\ cur(j)' = cur(j) /\ At(j)' = At(j) /\ job'[j].at = job[j].at
          /\ job'[j].seen = job[j].seen
      BY <1>8, <2>3 DEF cur, At, Kept
    <3>2. job'[j].cur \in job'[j].todo /\ Due(j, cur(j))'
      BY <1>1, <1>8, <2>3, <3>1 DEF SeenInv, Due
    <3>3. /\ job'[j].at \in Stamps(At(j))'
          /\ \A t \in Stamps(At(j))' : t <= job'[j].at
      BY <1>2, <1>5, <1>6, <1>7, <3>1
    <3>4. \A e \in job'[j].todo : Active(e) /\ e # cur(j)' => SawNewest(j, e)'
      BY <1>8, <1>9, <2>3, <3>1
    <3>5. job'[j].pc = "unlink" /\ "unlink" \in Linking
      BY <1>8, <2>3 DEF Linking
    <3>. QED  BY <1>8, <2>1, <2>3, <3>1, <3>2, <3>3, <3>4, <3>5 DEF SeenInv
  <2>. QED  BY <1>2, <2>2, <2>3
<1>11. \A k \in Jobs \ {j} : SeenInv(k)'
  BY <1>1, <1>3, <1>5, <1>8, OthersSeen DEF StoreInv, Kept
<1>12. SnapshotsSpaced'
  <2>. SUFFICES ASSUME NEW p \in Place, NEW t \in Stamps(p)',
                       NEW u \in Stamps(p)', t < u
                PROVE  \E e \in Entries : Active(e) /\ PlaceOf(e) = p
                                          /\ u >= t + e.freq
    BY DEF SnapshotsSpaced
  <2>1. CASE t \in Stamps(p) /\ u \in Stamps(p)
    BY <2>1 DEF StoreInv, SnapshotsSpaced
  <2>2. CASE ~(t \in Stamps(p) /\ u \in Stamps(p))
    <3>1. p = At(j) /\ t \in Stamps(p) /\ u = job[j].at
      BY <1>5, <1>6, <1>7, <2>2
    <3>2. u >= t + cur(j).freq
      <4>1. cur(j).freq \in Nat
        BY <1>2, EntryTypes DEF Entry
      <4>. QED  BY <1>6, <1>7, <3>1, <4>1
    <3>. QED  BY <1>2, <3>1, <3>2 DEF At
  <2>. QED  BY <2>1, <2>2
<1>13. LinksNamed'
  <2>1. ASSUME NEW p \in Place, NEW f \in Linked,
               snap[PlainName(p, f.at)] = f.file
        PROVE  snap'[PlainName(p, f.at)] = f.file
    <3>1. f.at \in Time /\ f.file \in Content /\ PlainName(p, f.at) \in Name
      BY DEF Linked, PlainName, Name, Place
    <3>2. f.at \in Stamps(p)
      BY <2>1, <3>1, AbsentAssumption DEF Stamps, PlainName
    <3>3. PlainName(p, f.at) # File(j)
      <4>. SUFFICES ASSUME PlainName(p, f.at) = File(j) PROVE FALSE
        OBVIOUS
      <4>1. File(j).dir = p[1] /\ File(j).id = p[2] /\ File(j).at = f.at
        BY DEF PlainName
      <4>2. p = At(j) /\ f.at = job[j].at
        BY <1>4, <4>1 DEF Place
      <4>. QED  BY <1>6, <1>7, <3>2, <4>2
    <3>. QED  BY <1>2, <1>3, <2>1, <3>1, <3>3 DEF FilesOK
  <2>. QED  BY <1>2, <1>3, <2>1 DEF StoreInv, LinksNamed, FilesOK
<1>14. \A k \in Jobs : SeenInv(k)'
  BY <1>10, <1>11
<1>. QED  BY <1>5, <1>12, <1>13, <1>14 DEF StoreInv

\* The steps of linkLatest, and every other step of a pass, keep what the store
\* promises.
LEMMA PassStore ==
    ASSUME IInv, StoreInv, Orderly, NEW j \in Jobs, PassStep(j)
    PROVE  StoreInv'
<1>1. SeenInv(j) /\ LinksNamed /\ JobsOK /\ FilesOK
  BY TypeParts DEF StoreInv, IInv
<1>2. ASSUME snap' = snap, link' = link,
             \A p \in Place : ltmp'[p] = ltmp[p] \/ ltmp'[p] = Absent
      PROVE  LinksNamed'
  BY <1>1, <1>2 DEF LinksNamed
<1>3. ASSUME \/ AbortPass(j) \/ EndPass(j)
             \/ \E e \in job[j].todo :
                    SkipEntry(j, e) \/ RefuseEntry(j, e) \/ OpenSource(j, e)
      PROVE  StoreInv'
  <2>1. /\ Kept(j) /\ job[j].pc = "loop"
        /\ job'[j].todo \subseteq job[j].todo
        /\ \/ job'[j].pc \in {"loop", "done"}
           \/ /\ job'[j].pc = "copy" /\ job'[j].cur \in job'[j].todo
              /\ Due(j, job'[j].cur)
        /\ UNCHANGED fileVars
    BY <1>3, LoopShape
  <2>2. snap' = snap /\ link' = link /\ ltmp' = ltmp
    BY <2>1 DEF fileVars
  <2>3. \A e : SawNewest(j, e)' = SawNewest(j, e) /\ Due(j, e)' = Due(j, e)
    BY <2>1, <2>2 DEF SawNewest, Due, Kept, Stamps
  <2>4. "loop" \notin Linking /\ "loop" \notin Steps /\ "done" \notin Linking
        /\ "done" \notin Steps /\ "copy" \notin Linking
    BY DEF Linking, Steps
  <2>5. \A e \in job'[j].todo : Active(e) => SawNewest(j, e)'
    BY <1>1, <2>1, <2>3, <2>4 DEF SeenInv
  <2>6. job'[j].pc \in Steps => job'[j].cur \in job'[j].todo /\ Due(j, cur(j))'
    BY <2>1, <2>3, <2>4 DEF cur
  <2>7. SeenInv(j)'
    BY <1>1, <2>1, <2>4, <2>5, <2>6 DEF SeenInv
  <2>. QED  BY <1>2, <2>1, <2>2, <2>7, QuietStep DEF Kept
<1>4. ASSUME NEW l \in Steps \ Linking, Goto(j, l), job[j].pc \in Steps \ Linking,
             UNCHANGED <<snap, ltmp, link>>
      PROVE  StoreInv'
  <2>1. Stays(j, l)
    BY <1>1, <1>4, GotoShape
  <2>2. SeenInv(j)'
    BY <1>1, <1>4, <2>1, SeenMoves
  <2>. QED  BY <1>2, <1>4, <2>1, <2>2, QuietStep DEF Stays, Kept
<1>5. ASSUME NEW err \in BOOLEAN, EndEntry(j, err), job[j].pc \in Steps,
             snap' = snap, LinksNamed',
             \A p \in Place \ {At(j)} : ltmp'[p] = ltmp[p]
      PROVE  StoreInv'
  <2>1. Ends(j, err)
    BY <1>1, <1>5, EndShape
  <2>2. SeenInv(j)'
    BY <1>1, <1>5, <2>1, SeenEnds
  <2>. QED  BY <1>5, <2>1, <2>2, QuietStep DEF Ends, Kept
<1>6. CASE StartCopy(j) \/ FinishCopy(j) \/ FinishGzip(j) \/ LoseTail(j)
           \/ FailGzip(j)
  <2>1. /\ job[j].pc \in {"copy", "copying", "gzip", "zipping"}
        /\ job[j].pc \in Steps \ Linking /\ UNCHANGED <<snap, ltmp, link>>
    BY <1>6 DEF StartCopy, FinishCopy, FinishGzip, LoseTail, FailGzip, fileVars,
                Steps, Linking
  <2>2. \E l \in {"copying", "gzip", "promote", "drop"} : Stays(j, l)
    <3>1. cur(j).gz \in BOOLEAN
      BY <2>1, StepFacts
    <3>. QED  BY <1>1, <1>6, <3>1, StartCopyShape, FinishCopyShape, ZippedShape
  <2>3. PICK l \in {"copying", "gzip", "promote", "drop"} : Stays(j, l)
    BY <2>2
  <2>4. l \in Steps /\ l \notin Linking
    BY DEF Steps, Linking
  <2>5. SeenInv(j)'
    BY <1>1, <2>1, <2>3, <2>4, SeenMoves
  <2>. QED  BY <1>2, <2>1, <2>3, <2>5, QuietStep DEF Stays, Kept
<1>7. CASE FailCopy(j) \/ StartGzip(j) \/ FailPromote(j)
  <2>1. /\ job[j].pc \in Steps \ Linking /\ UNCHANGED <<snap, ltmp, link>>
        /\ \E l \in Steps \ Linking : Goto(j, l)
    BY <1>7 DEF FailCopy, StartGzip, FailPromote, fileVars, Steps, Linking
  <2>. QED  BY <1>4, <2>1
<1>8. CASE DropDump(j) \/ Discard(j)
  <2>1. /\ job[j].pc \in Steps \ Linking /\ UNCHANGED <<snap, ltmp, link>>
        /\ \/ \E l \in Steps \ Linking : Goto(j, l)
           \/ EndEntry(j, TRUE)
    BY <1>8 DEF DropDump, Discard, Steps, Linking
  <2>. QED  BY <1>2, <1>4, <1>5, <2>1
<1>9. CASE Promote(j)
  BY <1>9, PromoteStore
<1>10. ASSUME NEW l \in {"link", "swap"}, Goto(j, l),
              job[j].pc \in {"unlink", "link"}, snap' = snap, LinksNamed',
              \A p \in Place \ {At(j)} : ltmp'[p] = ltmp[p],
              l = "swap" => /\ ltmp'[At(j)] # Absent
                            /\ ltmp'[At(j)].at = job[j].at
       PROVE  StoreInv'
  <2>1. Stays(j, l)
    BY <1>1, <1>10, GotoShape
  <2>2. /\ job'[j].pc = l /\ job'[j].at = job[j].at /\ job'[j].seen = job[j].seen
        /\ job'[j].todo = job[j].todo /\ job'[j].cur = job[j].cur
        /\ cur(j)' = cur(j) /\ At(j)' = At(j)
    BY <2>1 DEF Stays, Kept, cur, At
  <2>3. \A e : Due(j, e)' = Due(j, e) /\ SawNewest(j, e)' = SawNewest(j, e)
    BY <1>10, <2>2 DEF Due, SawNewest, Stamps
  <2>4. Stamps(At(j))' = Stamps(At(j))
    BY <1>10, <2>2 DEF Stamps
  <2>5. /\ l \in Linking /\ job[j].pc \in Linking /\ job[j].pc \in Steps
    BY <1>10 DEF Linking, Steps
  <2>6. SeenInv(j)'
    BY <1>1, <1>10, <2>2, <2>3, <2>4, <2>5 DEF SeenInv
  <2>. QED  BY <1>10, <2>1, <2>5, <2>6, QuietStep DEF Stays, Kept
<1>11. CASE RemoveStaleLink(j)
  <2>1. /\ job[j].pc = "unlink" /\ job[j].pc \in Steps
        /\ snap' = snap /\ link' = link /\ Goto(j, "link")
        /\ ltmp' = [ltmp EXCEPT ![At(j)] = Absent] \/ ltmp' = ltmp
    BY <1>11 DEF RemoveStaleLink, Steps
  <2>2. /\ \A p \in Place \ {At(j)} : ltmp'[p] = ltmp[p]
        /\ \A p \in Place : ltmp'[p] = ltmp[p] \/ ltmp'[p] = Absent
    BY <1>1, <2>1, StepFacts DEF FilesOK
  <2>. QED  BY <1>2, <1>10, <2>1, <2>2
<1>12. CASE MakeLink(j)
  <2> DEFINE f == [at |-> job[j].at, file |-> snap[File(j)]]
  <2>1. /\ job[j].pc = "link" /\ job[j].pc \in Steps
        /\ snap' = snap /\ link' = link /\ Goto(j, "swap")
        /\ ltmp' = [ltmp EXCEPT ![At(j)] = f]
    BY <1>12 DEF MakeLink, Steps
  <2>2. At(j) \in Place /\ ~cur(j).gz /\ cur(j).gz \in BOOLEAN /\ File(j) \in Name
        /\ job[j].at \in Time /\ snap[File(j)] # Absent
    BY <2>1, StepFacts DEF PassInv
  <2>3. /\ f.at = job[j].at /\ f.file = snap[File(j)] /\ f # Absent
    <3>1. f \in Linked
      BY <1>1, <2>2 DEF FilesOK, Linked
    <3>. QED  BY <3>1, AbsentAssumption
  <2>4. PlainName(At(j), job[j].at) = File(j)
    BY <2>2 DEF PlainName, At, PlaceOf, File, NameOf
  <2>5. /\ ltmp'[At(j)] = f
        /\ \A p \in Place \ {At(j)} : ltmp'[p] = ltmp[p]
    <3>. HIDE DEF f
    <3>. QED  BY <1>1, <2>1, <2>2 DEF FilesOK
  <2>6. LinksNamed'
    <3>. HIDE DEF f
    <3>. QED  BY <1>1, <2>1, <2>2, <2>3, <2>4, <2>5 DEF LinksNamed
  <2>. HIDE DEF f
  <2>. QED  BY <1>10, <2>1, <2>3, <2>5, <2>6
<1>13. CASE SwapLink(j)
  <2>1. /\ job[j].pc \in Steps /\ EndEntry(j, FALSE) /\ snap' = snap
        /\ link' = [link EXCEPT ![At(j)] = ltmp[At(j)]]
        /\ ltmp' = [ltmp EXCEPT ![At(j)] = Absent]
    BY <1>13 DEF SwapLink, Steps
  <2>2. At(j) \in Place
    BY <2>1, StepFacts
  <2>3. /\ link'[At(j)] = ltmp[At(j)] /\ ltmp'[At(j)] = Absent
        /\ \A p \in Place \ {At(j)} : ltmp'[p] = ltmp[p] /\ link'[p] = link[p]
    BY <1>1, <2>1, <2>2 DEF FilesOK
  <2>4. LinksNamed'
    BY <1>1, <2>1, <2>3 DEF LinksNamed
  <2>. QED  BY <1>5, <2>1, <2>3, <2>4
<1>14. CASE FailLink(j)
  <2>1. /\ job[j].pc \in Steps /\ EndEntry(j, TRUE)
        /\ UNCHANGED <<snap, ltmp, link>>
    BY <1>14 DEF FailLink, Steps, fileVars
  <2>. QED  BY <1>2, <1>5, <2>1
<1>. QED
  BY <1>3, <1>6, <1>7, <1>8, <1>9, <1>11, <1>12, <1>13, <1>14
     DEF PassStep, CopyStep, GzipStep, PublishStep

\* Outside the passes only their starts matter: the scan finds the newest
\* snapshots, unless a directory cannot be read.
LEMMA OutsideStore ==
    ASSUME IInv, StoreInv, Orderly, "scan" \notin Events,
           (\E j \in Jobs : StartPass(j)) \/ Environment \/ UNCHANGED vars
    PROVE  StoreInv' /\ snap' = snap /\ link' = link
<1>1. /\ (\A j \in Jobs : SeenInv(j)) /\ SnapshotsSpaced /\ LinksNamed
      /\ BoxOK /\ JobsOK /\ config \in Configs
  BY TypeParts DEF StoreInv, IInv, BoxOK
<1>2. ASSUME UNCHANGED fileVars
      PROVE  /\ snap' = snap /\ ltmp' = ltmp /\ link' = link
             /\ \A p : Stamps(p)' = Stamps(p)
             /\ SnapshotsSpaced' /\ LinksNamed'
  <2>1. snap' = snap /\ ltmp' = ltmp /\ link' = link
    BY <1>2 DEF fileVars
  <2>2. \A p : Stamps(p)' = Stamps(p)
    BY <2>1 DEF Stamps
  <2>. QED  BY <1>1, <2>1, <2>2 DEF SnapshotsSpaced, LinksNamed
<1>3. ASSUME NEW j \in Jobs, StartPass(j)
      PROVE  StoreInv' /\ snap' = snap /\ link' = link
  <2>1. /\ job'[j].pc = "loop" /\ job'[j].todo = config[j]
        /\ job'[j].seen = Scan(config[j], {})
        /\ \A k \in Jobs \ {j} : job'[k] = job[k]
        /\ job[j].pc \in Resting /\ UNCHANGED fileVars
    BY <1>3, FireShape DEF StartPass, Inject
  <2>2. /\ snap' = snap /\ ltmp' = ltmp /\ link' = link
        /\ \A p : Stamps(p)' = Stamps(p)
        /\ SnapshotsSpaced' /\ LinksNamed'
    BY <1>2, <2>1
  <2>3. ASSUME NEW e \in config[j], Active(e) PROVE SawNewest(j, e)'
    <3>1. \A t \in Stamps(PlaceOf(e)) :
              /\ Scan(config[j], {})[BackupID(e)] # Absent
              /\ t <= Scan(config[j], {})[BackupID(e)]
      BY <1>1, <2>3, ScanNewest
    <3>. QED  BY <2>1, <2>2, <3>1 DEF SawNewest
  <2>4. "loop" \notin Steps /\ "loop" \notin Linking
    BY DEF Steps, Linking
  <2>5. SeenInv(j)'
    BY <1>1, <2>1, <2>3, <2>4 DEF SeenInv
  <2>. QED  BY <2>1, <2>2, <2>5, QuietStep
<1>4. ASSUME UNCHANGED <<job, fileVars>>
      PROVE  StoreInv' /\ snap' = snap /\ link' = link
  <2>1. /\ snap' = snap /\ ltmp' = ltmp /\ link' = link
        /\ \A p : Stamps(p)' = Stamps(p)
        /\ SnapshotsSpaced' /\ LinksNamed' /\ job' = job
    BY <1>2, <1>4
  <2>2. \A j \in Jobs : SeenInv(j)'
    BY <1>1, <2>1 DEF SeenInv, SawNewest, Due, cur, At
  <2>. QED  BY <2>1, <2>2 DEF StoreInv
<1>5. ASSUME NEW j \in Jobs, Cancel(j)
      PROVE  StoreInv' /\ snap' = snap /\ link' = link
  <2>1. /\ job' = [job EXCEPT ![j].cancelled = TRUE] /\ UNCHANGED fileVars
    BY <1>5 DEF Cancel
  <2>2. /\ \A k \in Jobs \ {j} : job'[k] = job[k]
        /\ job'[j].pc = job[j].pc /\ job'[j].cur = job[j].cur
        /\ job'[j].at = job[j].at /\ job'[j].todo = job[j].todo
        /\ job'[j].seen = job[j].seen
    BY <1>1, <2>1 DEF JobsOK, Job
  <2>3. /\ snap' = snap /\ ltmp' = ltmp /\ link' = link
        /\ \A p : Stamps(p)' = Stamps(p)
        /\ SnapshotsSpaced' /\ LinksNamed'
    BY <1>2, <2>1
  <2>4. SeenInv(j)'
    BY <1>1, <2>2, <2>3 DEF SeenInv, SawNewest, Due, cur, At
  <2>. QED  BY <2>2, <2>3, <2>4, QuietStep
<1>6. CASE Crash
  <2>1. job' = [j \in Jobs |-> IdleJob] /\ UNCHANGED fileVars
    BY <1>6 DEF Crash
  <2>2. /\ snap' = snap /\ link' = link /\ SnapshotsSpaced' /\ LinksNamed'
    BY <1>2, <2>1
  <2>3. \A j \in Jobs : job'[j].todo = {} /\ job'[j].pc = "idle"
    BY <2>1 DEF IdleJob
  <2>4. "idle" \notin Steps /\ "idle" \notin Linking
    BY DEF Steps, Linking
  <2>5. \A j \in Jobs : SeenInv(j)'
    BY <1>1, <2>3, <2>4 DEF SeenInv
  <2>. QED  BY <2>2, <2>5 DEF StoreInv
<1>7. CASE Environment /\ ~Crash /\ ~(\E j \in Jobs : Cancel(j))
  <2>1. UNCHANGED <<job, fileVars>>
    BY <1>7 DEF Environment, Tick, SetBack, Reload, Commit, ReplaceSource,
                ClosePools, CloseIdle
  <2>. QED  BY <1>4, <2>1
<1>8. CASE UNCHANGED vars
  BY <1>4, <1>8 DEF vars, fileVars
<1>. QED  BY <1>3, <1>5, <1>6, <1>7, <1>8

\* The invariant of the store, for an orderly configuration in which no scan
\* fails.
LEMMA Stored ==
    ASSUME Orderly, "scan" \notin Events
    PROVE  Spec => []StoreInv
<1>1. Init => StoreInv
  <2>. SUFFICES ASSUME Init PROVE StoreInv
    OBVIOUS
  <2>1. \A p \in Place : Stamps(p) = {} /\ link[p] = Absent /\ ltmp[p] = Absent
    <3>1. \A p \in Place, t \in Time, z \in BOOLEAN :
              [dir |-> p[1], id |-> p[2], at |-> t, gz |-> z] \in Name
      BY DEF Name, Place
    <3>. QED  BY <3>1 DEF Init, Stamps
  <2>2. "idle" \notin Steps /\ "idle" \notin Linking
    BY DEF Steps, Linking
  <2>3. \A j \in Jobs : SeenInv(j)
    BY <2>2 DEF Init, SeenInv, IdleJob
  <2>. QED  BY <2>1, <2>3 DEF StoreInv, SnapshotsSpaced, LinksNamed
<1>2. IInv /\ StoreInv /\ [Next]_vars => StoreInv'
  BY PassStore, OutsideStore DEF Next
<1>. QED  BY <1>1, <1>2, Inductive, PTL DEF Spec

\* The latest link of a place, once there, is a hard link to a whole snapshot of
\* that place with its own time, however link, rename, crash and the other job
\* interleave (linkLatest).
THEOREM LatestIsSnapshot ==
    ASSUME Orderly, "scan" \notin Events
    PROVE  Spec => []LinkIsSnapshot
<1>1. IInv /\ StoreInv => LinkIsSnapshot
  BY DEF IInv, LinksWhole, StoreInv, LinksNamed, PlainName, LinkIsSnapshot
<1>. QED  BY <1>1, Inductive, Stored, PTL

\* Snapshots of a place are a frequency apart, whatever fails, is cancelled,
\* reloaded or restarted in between and however the clock moves.
THEOREM FrequencyKept ==
    ASSUME Orderly, "scan" \notin Events
    PROVE  Spec => []SnapshotsSpaced
<1>1. StoreInv => SnapshotsSpaced
  BY DEF StoreInv
<1>. QED  BY <1>1, Stored, PTL

(***************************************************************************)
(* A pass without an error leaves nothing due.                             *)
(***************************************************************************)

\* At the time of the pass of engine j entry e was not due by what is there.
Served(j, e) == \E t \in Stamps(PlaceOf(e)) : ~IsBackupDue(t, e.freq, job[j].at)

\* What the scan found of e is there.
FoundThere(j, e) ==
    job[j].seen[BackupID(e)] # Absent => job[j].seen[BackupID(e)] \in Stamps(PlaceOf(e))

\* The entries that a pass has gone through are served, or it has failed; what
\* it links is there.
WorkInv(j) ==
    /\ job[j].todo \subseteq job[j].took
    /\ \A e \in job[j].took : Active(e) => FoundThere(j, e)
    /\ ~job[j].failed => \A e \in job[j].took \ job[j].todo : Active(e) => Served(j, e)
    /\ job[j].pc \in Linking => job[j].at \in Stamps(At(j))
    /\ job[j].pc = "done" => job[j].todo = {}

AllWork == \A j \in Jobs : WorkInv(j)

\* No snapshot is taken back.
Growing == \A p \in Place : Stamps(p) \subseteq Stamps(p)'

\* The scan takes what it finds of an entry from the directory of the entry.
LEMMA ScanThere ==
    ASSUME Orderly, NEW c \in Configs, NEW j \in Jobs, NEW e \in c[j], Active(e),
           NEW bad \in SUBSET Dirs, Scan(c[j], bad)[BackupID(e)] # Absent
    PROVE  Scan(c[j], bad)[BackupID(e)] \in Stamps(PlaceOf(e))
<1> DEFINE id == BackupID(e)
           Found == {d \in Dirs \ bad :
                        /\ \E f \in c[j] : Active(f) /\ PlaceOf(f) = <<d, id>>
                        /\ Stamps(<<d, id>>) # {}}
<1>1. e \in Entries /\ e.dir \in Dirs /\ id \in IDs
  BY EntryTypes DEF Entries
<1>2. Scan(c[j], bad)[id] = IF Found = {} THEN Absent ELSE Max(Stamps(<<Max(Found), id>>))
  BY <1>1 DEF Scan
<1>3. Found # {}
  <2>. HIDE DEF Found
  <2>. QED  BY <1>2
<1>4. ASSUME NEW d \in Found PROVE d = e.dir
  <2>1. PICK f \in c[j] : Active(f) /\ PlaceOf(f) = <<d, id>>
    BY <1>4
  <2>2. f.dir = d /\ BackupID(f) = BackupID(e)
    BY <2>1 DEF PlaceOf
  <2>. QED  BY <2>1, <2>2 DEF Orderly
<1>5. e.dir \in Found
  BY <1>3, <1>4
<1>6. Max(Found) = e.dir
  <2>1. Found \in SUBSET (1 .. NumDirs)
    BY DEF Dirs
  <2>. HIDE DEF Found
  <2>. QED  BY <1>4, <1>5, <2>1, MaxOfInterval, BoundsAssumption
<1>7. Scan(c[j], bad)[id] = Max(Stamps(PlaceOf(e)))
  <2>. HIDE DEF Found
  <2>. QED  BY <1>2, <1>3, <1>6 DEF PlaceOf
<1>8. Stamps(PlaceOf(e)) \in SUBSET (0 .. MaxTime) /\ Stamps(PlaceOf(e)) # {}
  BY <1>5 DEF Stamps, Time, PlaceOf
<1>. QED  BY <1>7, <1>8, MaxOfInterval, BoundsAssumption

\* What a pass knows of its entries stays true while nobody changes its record.
LEMMA WorkStays ==
    ASSUME TypeOK, NEW k \in Jobs, WorkInv(k), job'[k] = job[k], Growing
    PROVE  WorkInv(k)'
<1>1. job[k].took \subseteq Entries /\ job[k] \in Job
  BY DEF TypeOK, Job
<1>2. ASSUME NEW e \in job[k].took, Active(e)
      PROVE  Stamps(PlaceOf(e)) \subseteq Stamps(PlaceOf(e))'
  BY <1>1, <1>2, EntryTypes DEF Growing
<1>3. job[k].pc \in Linking => Stamps(At(k)) \subseteq Stamps(At(k))'
  <2>1. job[k].pc \in Linking => At(k) \in Place
    BY StepTypes DEF Linking, Steps
  <2>2. At(k)' = At(k)
    BY DEF At, cur
  <2>3. \A p : p = At(k) => Stamps(p)' = Stamps(At(k))'
    BY <2>2
  <2>. QED  BY <2>1, <2>3 DEF Growing
<1>4. \A e \in job[k].took : Active(e) =>
          (FoundThere(k, e) => FoundThere(k, e)') /\ (Served(k, e) => Served(k, e)')
  BY <1>2 DEF FoundThere, Served
<1>. QED  BY <1>3, <1>4 DEF WorkInv

\* A step of a pass that takes entries off its list only when they are served, or
\* when it fails.
LEMMA WorkMoves ==
    ASSUME TypeOK, NEW j \in Jobs, WorkInv(j), Kept(j), Growing,
           job'[j].todo \subseteq job[j].todo,
           job[j].failed => job'[j].failed,
           ~job'[j].failed => \A e \in job[j].todo \ job'[j].todo :
                                  Active(e) => Served(j, e)',
           job'[j].pc \in Linking => job'[j].at \in Stamps(At(j))',
           job'[j].pc = "done" => job'[j].todo = {}
    PROVE  WorkInv(j)'
<1>1. job[j].took \subseteq Entries /\ job'[j].took = job[j].took /\ job'[j].at = job[j].at
      /\ job'[j].seen = job[j].seen
  BY DEF TypeOK, Job, Kept
<1>2. ASSUME NEW e \in job[j].took, Active(e)
      PROVE  FoundThere(j, e)' /\ (Served(j, e) => Served(j, e)')
  <2>1. Stamps(PlaceOf(e)) \subseteq Stamps(PlaceOf(e))'
    BY <1>1, <1>2, EntryTypes DEF Growing
  <2>2. FoundThere(j, e)
    BY <1>2 DEF WorkInv
  <2>. QED  BY <1>1, <2>1, <2>2 DEF FoundThere, Served
<1>3. ASSUME ~job'[j].failed, NEW e \in job[j].took \ job'[j].todo, Active(e)
      PROVE  Served(j, e)'
  <2>1. CASE e \in job[j].todo
    BY <1>3, <2>1
  <2>2. CASE e \notin job[j].todo
    BY <1>2, <1>3, <2>2 DEF WorkInv
  <2>. QED  BY <2>1, <2>2
<1>. QED  BY <1>1, <1>2, <1>3 DEF WorkInv

\* A snapshot of the time of the pass serves its entry.
LEMMA OwnServes ==
    ASSUME TypeOK, Orderly, NEW j \in Jobs, NEW e \in Entries, Active(e),
           job'[j].at = job[j].at, job[j].at \in Stamps(PlaceOf(e))'
    PROVE  Served(j, e)'
<1>1. job[j].at \in Time /\ job[j].at \in Int
  BY BoundsAssumption DEF TypeOK, Job, Time
<1>2. e.freq \in Nat /\ e.freq > 0
  BY EntryTypes DEF Entry, Orderly
<1>3. ~IsBackupDue(job[j].at, e.freq, job[j].at)
  BY <1>1, <1>2, AbsentAssumption DEF IsBackupDue
<1>. QED  BY <1>3 DEF Served

\* Every step of a pass keeps it: the errors of stat, open, copy, rename and link
\* are the pass's own, and what is passed over is there.
LEMMA PassWork ==
    ASSUME IInv, Orderly, NEW j \in Jobs, WorkInv(j), PassStep(j)
    PROVE  WorkInv(j)' /\ Growing /\ \A k \in Jobs \ {j} : job'[k] = job[k]
<1>1. TypeOK /\ JobsOK /\ FilesOK
  BY TypeParts DEF IInv
<1>2. ASSUME snap' = snap
      PROVE  Growing /\ \A p : Stamps(p)' = Stamps(p)
  BY <1>2 DEF Growing, Stamps
<1>3. "loop" \notin Linking /\ "done" \notin Linking /\ "copy" \notin Linking
      /\ "loop" # "done" /\ "copy" # "done"
  BY DEF Linking
<1>4. ASSUME \/ AbortPass(j) \/ EndPass(j)
             \/ \E e \in job[j].todo :
                    SkipEntry(j, e) \/ RefuseEntry(j, e) \/ OpenSource(j, e)
      PROVE  WorkInv(j)' /\ Growing /\ \A k \in Jobs \ {j} : job'[k] = job[k]
  <2>1. /\ Kept(j) /\ job'[j].todo \subseteq job[j].todo
        /\ job'[j].pc \in {"loop", "done", "copy"}
        /\ job[j].failed => job'[j].failed
        /\ job'[j].pc = "done" => job'[j].todo = {}
        /\ ~job'[j].failed =>
               \A e \in job[j].todo \ job'[j].todo : Active(e) => ~Due(j, e)
        /\ snap' = snap
    BY <1>4, LoopShape DEF fileVars
  <2>2. Growing
    BY <1>2, <2>1
  <2>3. ASSUME NEW e \in job[j].todo, Active(e), ~Due(j, e)
        PROVE  Served(j, e)'
    <3>1. FoundThere(j, e)
      BY <2>3 DEF WorkInv
    <3>2. job[j].seen[BackupID(e)] # Absent
      BY <2>3 DEF Due, IsBackupDue
    <3>3. job[j].seen[BackupID(e)] \in Stamps(PlaceOf(e))'
      BY <1>2, <2>1, <3>1, <3>2 DEF FoundThere
    <3>. QED  BY <2>1, <2>3, <3>3 DEF Served, Due, Kept
  <2>4. WorkInv(j)'
    BY <1>1, <1>3, <2>1, <2>2, <2>3, WorkMoves
  <2>. QED  BY <2>1, <2>2, <2>4 DEF Kept
<1>5. ASSUME NEW l \in Steps, Stays(j, l), snap' = snap,
             l \in Linking => job[j].pc \in Linking
      PROVE  WorkInv(j)' /\ Growing /\ \A k \in Jobs \ {j} : job'[k] = job[k]
  <2>1. /\ Kept(j) /\ job'[j].todo = job[j].todo /\ job'[j].failed = job[j].failed
        /\ job'[j].pc = l /\ job'[j].at = job[j].at /\ At(j)' = At(j)
    BY <1>5 DEF Stays, Kept, At, cur
  <2>2. job'[j].pc \in Linking => job'[j].at \in Stamps(At(j))'
    <3>1. Stamps(At(j))' = Stamps(At(j))
      BY <1>5, <2>1 DEF Stamps
    <3>. QED  BY <1>5, <2>1, <3>1 DEF WorkInv
  <2>3. l # "done"
    BY DEF Steps
  <2>. QED  BY <1>1, <1>2, <1>5, <2>1, <2>2, <2>3, WorkMoves DEF Kept
<1>6. ASSUME NEW err \in BOOLEAN, EndEntry(j, err), Growing,
             ~err => Active(cur(j)) /\ cur(j) \in Entries
                     /\ \A e \in Entries : e = cur(j) => job[j].at \in Stamps(PlaceOf(e))'
      PROVE  WorkInv(j)' /\ Growing /\ \A k \in Jobs \ {j} : job'[k] = job[k]
  <2>1. /\ Kept(j) /\ job'[j].pc = "loop" /\ job'[j].todo = job[j].todo \ {cur(j)}
        /\ job'[j].failed = (job[j].failed \/ err)
    BY <1>1, <1>6, EndShape DEF Ends, cur
  <2>2. ASSUME ~job'[j].failed, NEW e \in job[j].todo \ job'[j].todo, Active(e)
        PROVE  Served(j, e)'
    <3>1. e = cur(j) /\ ~err
      BY <2>1, <2>2
    <3>2. job'[j].at = job[j].at
      BY <2>1 DEF Kept
    <3>3. e \in Entries /\ job[j].at \in Stamps(PlaceOf(e))'
      BY <1>6, <3>1
    <3>. QED  BY <1>1, <2>2, <3>2, <3>3, OwnServes
  <2>. QED  BY <1>1, <1>3, <1>6, <2>1, <2>2, WorkMoves DEF Kept
<1>7. CASE StartCopy(j) \/ FinishCopy(j) \/ FinishGzip(j) \/ LoseTail(j) \/ FailGzip(j)
  <2>1. job[j].pc \in {"copy", "copying", "gzip", "zipping"} /\ snap' = snap
    BY <1>7 DEF StartCopy, FinishCopy, FinishGzip, LoseTail, FailGzip, fileVars
  <2>2. cur(j).gz \in BOOLEAN
    BY <1>1, <2>1, StepTypes DEF Steps
  <2>3. PICK l \in {"copying", "gzip", "promote", "drop"} : Stays(j, l)
    BY <1>1, <1>7, <2>2, StartCopyShape, FinishCopyShape, ZippedShape
  <2>4. l \in Steps /\ l \notin Linking
    BY DEF Steps, Linking
  <2>. QED  BY <1>5, <2>1, <2>3, <2>4
<1>8. CASE FailCopy(j) \/ StartGzip(j) \/ FailPromote(j)
  <2>1. snap' = snap /\ \E l \in Steps \ Linking : Goto(j, l)
    BY <1>8 DEF FailCopy, StartGzip, FailPromote, fileVars, Steps, Linking
  <2>. QED  BY <1>1, <1>5, <2>1, GotoShape
<1>9. CASE DropDump(j) \/ Discard(j)
  <2>1. snap' = snap /\ ((\E l \in Steps \ Linking : Goto(j, l)) \/ EndEntry(j, TRUE))
    BY <1>9 DEF DropDump, Discard, Steps, Linking
  <2>2. CASE \E l \in Steps \ Linking : Goto(j, l)
    BY <1>1, <1>5, <2>1, <2>2, GotoShape
  <2>3. CASE EndEntry(j, TRUE)
    BY <1>2, <1>6, <2>1, <2>3
  <2>. QED  BY <2>1, <2>2, <2>3
<1>10. CASE Promote(j)
  <2>1. /\ job[j].pc = "promote" /\ job[j].pc \in Steps
        /\ snap' = [snap EXCEPT ![File(j)] = part[File(j)]]
        /\ IF cur(j).gz THEN EndEntry(j, FALSE) ELSE Goto(j, "unlink")
    BY <1>10 DEF Promote, Steps
  <2>2. /\ File(j) \in Name /\ part[File(j)] # Absent /\ cur(j).gz \in BOOLEAN
        /\ cur(j) \in Entries /\ Active(cur(j)) /\ job[j].at \in Time
    BY <2>1, StepFacts DEF PassInv, Sound, JobsOK, cur, Job
  <2>3. <<File(j).dir, File(j).id>> = At(j) /\ File(j).at = job[j].at /\ At(j) \in Place
    BY <2>1, StepFacts DEF File, NameOf, At, PlaceOf
  <2>4. ASSUME NEW p \in Place
        PROVE  Stamps(p)' = IF p = At(j) THEN Stamps(p) \cup {job[j].at} ELSE Stamps(p)
    BY <1>1, <2>1, <2>2, <2>3, StampsAfter
  <2>5. Growing
    BY <2>4 DEF Growing
  <2>6. ASSUME NEW e \in Entries, e = cur(j)
        PROVE  job[j].at \in Stamps(PlaceOf(e))'
    BY <2>3, <2>4, <2>6 DEF At
  <2>7. CASE cur(j).gz
    BY <1>6, <2>1, <2>2, <2>5, <2>6, <2>7
  <2>8. CASE ~cur(j).gz
    <3>1. Stays(j, "unlink")
      BY <1>1, <2>1, <2>8, GotoShape
    <3>2. /\ Kept(j) /\ job'[j].todo = job[j].todo /\ job'[j].failed = job[j].failed
          /\ job'[j].pc = "unlink" /\ job'[j].at = job[j].at /\ cur(j)' = cur(j)
      BY <3>1 DEF Stays, Kept, cur
    <3>3. job'[j].at \in Stamps(At(j))'
      BY <2>2, <2>6, <3>2 DEF At
    <3>. QED  BY <1>1, <2>5, <3>2, <3>3, WorkMoves DEF Kept
  <2>. QED  BY <2>2, <2>7, <2>8
<1>11. CASE RemoveStaleLink(j) \/ MakeLink(j)
  <2>1. /\ snap' = snap /\ job[j].pc \in Linking
        /\ \E l \in {"link", "swap"} : Goto(j, l)
    BY <1>11 DEF RemoveStaleLink, MakeLink, Linking
  <2>2. "link" \in Steps /\ "swap" \in Steps
    BY DEF Steps
  <2>. QED  BY <1>1, <1>5, <2>1, <2>2, GotoShape
<1>12. CASE SwapLink(j)
  <2>1. /\ snap' = snap /\ job[j].pc = "swap" /\ EndEntry(j, FALSE)
    BY <1>12 DEF SwapLink
  <2>2. job[j].pc \in Linking /\ job[j].pc \in Steps
    BY <2>1 DEF Linking, Steps
  <2>3. cur(j) \in Entries /\ Active(cur(j))
    BY <1>1, <2>2 DEF JobsOK, cur
  <2>4. job[j].at \in Stamps(PlaceOf(cur(j)))
    BY <2>2 DEF WorkInv, At
  <2>5. ASSUME NEW e \in Entries, e = cur(j)
        PROVE  job[j].at \in Stamps(PlaceOf(e))'
    BY <1>2, <2>1, <2>4, <2>5
  <2>. QED  BY <1>2, <1>6, <2>1, <2>3, <2>5
<1>13. CASE FailLink(j)
  <2>1. snap' = snap /\ EndEntry(j, TRUE)
    BY <1>13 DEF FailLink, fileVars
  <2>. QED  BY <1>2, <1>6, <2>1
<1>. QED
  BY <1>4, <1>7, <1>8, <1>9, <1>10, <1>11, <1>12, <1>13
     DEF PassStep, CopyStep, GzipStep, PublishStep

\* Outside the passes only their starts and their ends by a crash matter.
LEMMA OutsideWork ==
    ASSUME IInv, Orderly, AllWork,
           (\E j \in Jobs : StartPass(j)) \/ Environment \/ UNCHANGED vars
    PROVE  AllWork'
<1>1. TypeOK /\ JobsOK /\ config \in Configs
  BY TypeParts DEF IInv, TypeOK
<1>2. UNCHANGED fileVars => Growing /\ \A p : Stamps(p)' = Stamps(p)
  BY DEF fileVars, Growing, Stamps
<1>3. ASSUME NEW j \in Jobs, StartPass(j)
      PROVE  AllWork'
  <2>1. /\ job'[j].pc = "loop" /\ job'[j].took = config[j] /\ job'[j].todo = config[j]
        /\ \E bad \in SUBSET Dirs : job'[j].seen = Scan(config[j], bad)
        /\ \A k \in Jobs \ {j} : job'[k] = job[k]
        /\ UNCHANGED fileVars
    BY <1>3, FireShape DEF StartPass
  <2>2. ASSUME NEW e \in config[j], Active(e)
        PROVE  FoundThere(j, e)'
    <3>1. PICK bad \in SUBSET Dirs : job'[j].seen = Scan(config[j], bad)
      BY <2>1
    <3>. QED  BY <1>1, <1>2, <2>1, <2>2, <3>1, ScanThere DEF FoundThere
  <2>3. WorkInv(j)'
    BY <2>1, <2>2 DEF WorkInv, Linking
  <2>. QED  BY <1>1, <1>2, <2>1, <2>3, WorkStays DEF AllWork
<1>4. ASSUME UNCHANGED <<job, fileVars>>
      PROVE  AllWork'
  BY <1>1, <1>2, <1>4, WorkStays DEF AllWork
<1>5. ASSUME NEW j \in Jobs, Cancel(j)
      PROVE  AllWork'
  <2>1. job' = [job EXCEPT ![j].cancelled = TRUE] /\ UNCHANGED fileVars
    BY <1>5 DEF Cancel
  <2>2. /\ \A k \in Jobs \ {j} : job'[k] = job[k]
        /\ job'[j].pc = job[j].pc /\ job'[j].cur = job[j].cur
        /\ job'[j].at = job[j].at /\ job'[j].todo = job[j].todo
        /\ job'[j].seen = job[j].seen /\ job'[j].took = job[j].took
        /\ job'[j].failed = job[j].failed
    BY <1>1, <2>1 DEF JobsOK, Job
  <2>3. At(j)' = At(j)
    BY <2>2 DEF At, cur
  <2>4. WorkInv(j)'
    BY <1>2, <2>1, <2>2, <2>3 DEF AllWork, WorkInv, FoundThere, Served
  <2>. QED  BY <1>1, <1>2, <2>1, <2>2, <2>4, WorkStays DEF AllWork
<1>6. CASE Crash
  <2>1. \A j \in Jobs : job'[j].took = {} /\ job'[j].todo = {} /\ job'[j].pc = "idle"
    BY <1>6 DEF Crash, IdleJob
  <2>. QED  BY <2>1 DEF AllWork, WorkInv, Linking
<1>7. CASE Environment /\ ~Crash /\ ~(\E j \in Jobs : Cancel(j))
  <2>1. UNCHANGED <<job, fileVars>>
    BY <1>7 DEF Environment, Tick, SetBack, Reload, Commit, ReplaceSource,
                ClosePools, CloseIdle
  <2>. QED  BY <1>4, <2>1
<1>8. CASE UNCHANGED vars
  BY <1>4, <1>8 DEF vars, fileVars
<1>. QED  BY <1>3, <1>5, <1>6, <1>7, <1>8

\* A pass that reports no error has left none of its entries due, with every
\* failure, crash, reload and change of the clock, and although a directory that
\* cannot be read is taken for an empty one (handle).
THEOREM CleanPasses ==
    ASSUME Orderly
    PROVE  Spec => []CleanPassServes
<1>1. Init => AllWork
  BY DEF Init, AllWork, WorkInv, IdleJob, Linking
<1>2. IInv /\ AllWork /\ [Next]_vars => AllWork'
  <2>. SUFFICES ASSUME IInv, AllWork, [Next]_vars PROVE AllWork'
    OBVIOUS
  <2>1. ASSUME NEW j \in Jobs, PassStep(j)
        PROVE  AllWork'
    <3>1. WorkInv(j)' /\ Growing /\ \A k \in Jobs \ {j} : job'[k] = job[k]
      BY <2>1, PassWork DEF AllWork
    <3>. QED  BY <3>1, WorkStays DEF AllWork, IInv
  <2>. QED  BY <2>1, OutsideWork DEF Next
<1>3. AllWork => CleanPassServes
  BY DEF AllWork, WorkInv, CleanPassServes, Served
<1>. QED  BY <1>1, <1>2, <1>3, Inductive, PTL DEF Spec

(***************************************************************************)
(* The refinement.                                                         *)
(***************************************************************************)

\* A new process finds the store empty.
LEMMA StoreInit == Init => Store!Init
<1>. SUFFICES ASSUME Init PROVE Store!Init
  OBVIOUS
<1>1. \A p \in Place : Stamps(p) = {} /\ link[p] = Absent
  <2>1. \A p \in Place, t \in Time, z \in BOOLEAN :
            [dir |-> p[1], id |-> p[2], at |-> t, gz |-> z] \in Name
    BY DEF Name, Place
  <2>. QED  BY <2>1 DEF Init, Stamps
<1>. QED  BY <1>1 DEF Store!Init

\* A step that renames nothing is a stuttering step of the store.
LEMMA StoreStutter ==
    ASSUME snap' = snap, link' = link
    PROVE  UNCHANGED Store!vars
BY DEF Store!vars, Stamps

\* The rename to the final name publishes a snapshot, newer than the others.
LEMMA StorePublish ==
    ASSUME IInv, StoreInv, Orderly, NEW j \in Jobs, Promote(j)
    PROVE  Store!Next
<1>1. job[j].pc \in Steps
  BY DEF Promote, Steps
<1>2. At(j) \in Place /\ job[j].at \in Time
  BY <1>1, StepFacts
<1>3. \A u \in Stamps(At(j)) : u < job[j].at
  BY PromoteLater DEF StoreInv
<1>4. \A p \in Place : Stamps(p)' = IF p = At(j)
                    THEN Stamps(p) \cup {job[j].at} ELSE Stamps(p)
  BY PromoteStore
<1>5. link' = link
  BY DEF Promote
<1>6. Store!Publish(At(j), job[j].at)
  BY <1>2, <1>3, <1>4, <1>5 DEF Store!Publish
<1>. QED  BY <1>2, <1>6 DEF Store!Next

\* The rename over the latest link points it to the newest snapshot.
LEMMA StorePoint ==
    ASSUME IInv, StoreInv, NEW j \in Jobs, SwapLink(j)
    PROVE  Store!Next
<1>1. /\ job[j].pc = "swap" /\ job[j].pc \in Steps /\ job[j].pc \in Linking
      /\ snap' = snap /\ link' = [link EXCEPT ![At(j)] = ltmp[At(j)]]
  BY DEF SwapLink, Steps, Linking
<1>2. At(j) \in Place /\ FilesOK /\ job[j].at \in Int
  BY <1>1, StepFacts, BoundsAssumption DEF Time
<1>3. /\ job[j].at \in Stamps(At(j)) /\ \A t \in Stamps(At(j)) : t <= job[j].at
      /\ ltmp[At(j)] # Absent /\ ltmp[At(j)].at = job[j].at
  BY <1>1 DEF StoreInv, SeenInv
<1>4. Max(Stamps(At(j))) = job[j].at
  <2>1. Stamps(At(j)) \in SUBSET (0 .. MaxTime)
    BY DEF Stamps, Time
  <2>2. /\ Max(Stamps(At(j))) \in Stamps(At(j))
        /\ job[j].at <= Max(Stamps(At(j)))
    BY <1>3, <2>1, MaxOfInterval, BoundsAssumption
  <2>3. Max(Stamps(At(j))) \in Int
    BY <2>1, <2>2
  <2>. QED  BY <1>2, <1>3, <2>2, <2>3
<1>5. /\ link'[At(j)] = ltmp[At(j)]
      /\ \A p \in Place \ {At(j)} : link'[p] = link[p]
  BY <1>1, <1>2 DEF FilesOK
<1>6. \A p : Stamps(p)' = Stamps(p)
  BY <1>1 DEF Stamps
<1>7. Store!Max(Stamps(At(j))) = Max(Stamps(At(j)))
  BY DEF Store!Max, Max
<1>8. PICK p \in Place : p = At(j)
  BY <1>2
<1>9. Stamps(p) # {}
  BY <1>3, <1>8
<1>10. ASSUME NEW q \in Place
       PROVE  (IF link'[q] = Absent THEN Absent ELSE link'[q].at)
                = IF q = p THEN Store!Max(Stamps(p))
                  ELSE IF link[q] = Absent THEN Absent ELSE link[q].at
  BY <1>3, <1>4, <1>5, <1>7, <1>8
<1>11. Store!Point(p)
  BY <1>6, <1>9, <1>10 DEF Store!Point
<1>. QED  BY <1>11 DEF Store!Next

\* Every step is one of the store, or none.
LEMMA StoreStep ==
    ASSUME IInv, StoreInv, Orderly, "scan" \notin Events, [Next]_vars
    PROVE  [Store!Next]_Store!vars
<1>1. ASSUME NEW j \in Jobs, PassStep(j), ~Promote(j), ~SwapLink(j)
      PROVE  snap' = snap /\ link' = link
  BY <1>1 DEF PassStep, CopyStep, GzipStep, PublishStep, AbortPass, EndPass,
     SkipEntry, RefuseEntry, OpenSource, StartCopy, FinishCopy, FailCopy,
     StartGzip, FinishGzip, LoseTail, FailGzip, DropDump, Discard, FailPromote,
     RemoveStaleLink, MakeLink, FailLink, fileVars
<1>. QED  BY <1>1, OutsideStore, StoreStutter, StorePublish, StorePoint DEF Next

\* The engine implements the store of snapshots: they appear one at a time,
\* each newer than the last, are never taken back, and the latest link only ever
\* moves to what is then the newest.
THEOREM Refinement ==
    ASSUME Orderly, "scan" \notin Events
    PROVE  Spec => ImplementsStore
BY StoreInit, StoreStep, Inductive, Stored, PTL
   DEF Spec, Store!Spec, ImplementsStore

=============================================================================
