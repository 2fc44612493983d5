------------------------------ MODULE S3Proofs -------------------------------
(***************************************************************************)
(* The archive, for any labels, entries, intervals, failures and number of *)
(* files: what the upload stores, what the download has on disk, and that  *)
(* the two together implement the abstract Archive.                        *)
(*                                                                         *)
(* Both sides rest on one fact: an object is never older than its key      *)
(* says.  For the upload it follows from the order of stat, HEAD and open, *)
(* because a file only gets younger under its name; the download then need *)
(* only compare keys.                                                      *)
(***************************************************************************)
EXTENDS S3Archive, DownloadProofs

(***************************************************************************)
(* The invariant.                                                          *)
(***************************************************************************)

\* The files of an entry have names of their own, are not from the future, and
\* a name that is still to come is not there yet.
FilesInv ==
    \A l \in Labels :
        /\ \A f \in disk[l] : f.time <= now /\ f.base <= writes
        /\ \A f, g \in disk[l] : f.base = g.base => f = g

Held == up.pc \in {"head", "measure", "open", "put", "close", "wait"}

\* What is at the path of the selected file is that file or a younger one.
SelectInv ==
    Held => /\ up.file.time <= now /\ up.file.base <= writes
            /\ \A f \in disk[Min(up.todo)] :
                   f.base = up.file.base => up.file.time <= f.time

\* So is what was opened.
BodyInv ==
    /\ up.pipe # "none" => up.pc \in {"put", "close", "wait"}
    /\ (up.pipe \in {"writing", "done"} \/ (up.pc = "put" /\ ~Encrypted(Min(up.todo)))) =>
           up.body \in Body /\ up.file.time <= up.body.time

\* And what a request that was given up may still store.
FlyingInv == \A o \in flying : Pad(o.body.time) <= o.key.pad

UploadInv == UploadType /\ FilesInv /\ SelectInv /\ BodyInv /\ FlyingInv

\* A download covers its pad, as its object did.
Honest == \A f \in dest : Pad(f.body.time) <= f.key.pad

DownloadInv ==
    /\ DownloadOK /\ DueInv /\ Honest
    /\ PartialNeverLooksComplete /\ MinIntervalKept /\ ServedIsOnDisk

Inv == spent \in 0 .. MaxEvents /\ UploadInv /\ DoneIsStored /\ DownloadInv

(***************************************************************************)
(* Files and keys.                                                         *)
(***************************************************************************)

\* Of files with names of their own one was modified last.
LEMMA NewestIsThere ==
    ASSUME BucketAssumption, NEW S \in SUBSET File, S # {},
           \A f, g \in S : f.base = g.base => f = g
    PROVE  Newest(S) \in S
<1>1. \A f \in S : /\ f.base \in Nat /\ f.time \in Nat /\ f.time <= MaxTime
                   /\ MaxTime - f.time \in Nat
  <2>. SUFFICES ASSUME NEW f \in S
       PROVE  f.base \in Nat /\ f.time \in Nat /\ f.time <= MaxTime /\ MaxTime - f.time \in Nat
    OBVIOUS
  <2>1. f.base \in 0 .. MaxWrites /\ f.time \in 0 .. MaxTime
    BY DEF File, Time
  <2>. QED  BY <2>1 DEF BucketAssumption
<1>2. PICK a \in S : \A f \in S : f.time <= a.time
  <2>. DEFINE T == {MaxTime - f.time : f \in S}
  <2>1. T \in SUBSET Nat /\ T # {}
    BY <1>1
  <2>2. PICK p \in T : \A z \in T : p <= z
    BY <2>1, Least
  <2>3. PICK f \in S : p = MaxTime - f.time
    BY <2>2
  <2>4. \A g \in S : MaxTime - f.time <= MaxTime - g.time
    BY <2>2, <2>3
  <2>. QED  BY <1>1, <2>4 DEF BucketAssumption
<1>. DEFINE A == {f \in S : f.time = a.time}
<1>3. PICK b \in A : \A f \in A : b.base <= f.base
  <2>. DEFINE T == {f.base : f \in A}
  <2>1. T \in SUBSET Nat /\ T # {}
    BY <1>1, <1>2
  <2>2. PICK p \in T : \A z \in T : p <= z
    BY <2>1, Least
  <2>. QED  BY <2>2
<1>4. b \in S /\ \A g \in S : \/ g.time < b.time
                              \/ g.time = b.time /\ (g.base > b.base \/ g = b)
  <2>. SUFFICES ASSUME NEW g \in S, ~(g.time < b.time)
       PROVE  g.time = b.time /\ (g.base > b.base \/ g = b)
    BY <1>3
  <2>1. b \in S /\ b.time = a.time
    BY <1>3
  <2>2. g.time = b.time
    BY <1>1, <1>2, <2>1
  <2>3. b.base <= g.base
    BY <1>3, <2>1, <2>2
  <2>. QED  BY <1>1, <2>1, <2>2, <2>3
<1>. QED  BY <1>4 DEF Newest

\* The key of a file.
LEMMA KeyTyped ==
    ASSUME EntryAssumption, NEW l \in Labels, NEW f \in File
    PROVE  KeyOf(l, f) \in Key /\ KeyOf(l, f).label = l /\ KeyOf(l, f).pad = Pad(f.time)
<1>1. Entry[l].age \in BOOLEAN
  BY DEF EntryAssumption
<1>2. f.base \in 0 .. MaxWrites /\ f.ext \in Exts /\ f.time \in Time
  BY DEF File
<1>. QED  BY <1>1, <1>2 DEF KeyOf, ObjectKey, Encrypted, Key, Name

\* What is read of a file.
LEMMA BodyTyped ==
    ASSUME NEW f \in File
    PROVE  BodyOf(f) \in Body /\ BodyOf(f).time = f.time
BY DEF File, Body, BodyOf

\* Leaving an entry.
LEMMA LeavingUpload ==
    ASSUME UploadType, NEW l \in Labels, LeaveUpload(l)
    PROVE  up' \in UploadPass /\ up'.pc \in {"idle", "next"} /\ up'.pipe = "none"
<1>1. up.todo \in SUBSET Labels
  BY DEF UploadType, UploadPass
<1>2. CASE up.todo = {l}
  <2>1. up' = NoUpload
    BY <1>2 DEF LeaveUpload
  <2>. QED  BY <2>1 DEF NoUpload, UploadPass
<1>3. CASE up.todo # {l}
  <2>1. up' = [NoUpload EXCEPT !.pc = "next", !.todo = up.todo \ {l}]
    BY <1>3 DEF LeaveUpload
  <2>. QED  BY <1>1, <2>1 DEF NoUpload, UploadPass
<1>. QED  BY <1>2, <1>3

\* Between entries nothing is selected.
LEMMA NothingSelected ==
    ASSUME UploadInv, UNCHANGED <<now, disk, writes, flying>>,
           up' \in UploadPass, up'.pc \in {"idle", "next"}, up'.pipe = "none",
           kept' \in [Labels -> Time \cup {Absent}]
    PROVE  UploadInv'
BY DEF UploadInv, UploadType, FilesInv, SelectInv, Held, BodyInv, FlyingInv

(***************************************************************************)
(* The steps of an entry.                                                  *)
(***************************************************************************)

\* The steps that go on with the selected file.
LEMMA GoingOn ==
    ASSUME BucketAssumption, UploadInv, NEW l \in Labels, l = Min(up.todo), Held, Held',
           UNCHANGED <<now, disk, writes, flying, kept>>,
           up' \in UploadPass, up'.todo = up.todo, up.todo # {}, up'.file = up.file, BodyInv'
    PROVE  UploadInv'
<1>1. UploadType'
  BY DEF UploadInv, UploadType, Held
<1>2. SelectInv'
  BY DEF UploadInv, SelectInv
<1>. QED  BY <1>1, <1>2 DEF UploadInv, FilesInv, FlyingInv

\* The selection.
LEMMA SelectStep ==
    ASSUME BucketAssumption, UploadInv, NEW l \in Labels, Select(l)
    PROVE  UploadInv'
<1>0. PICK found \in SUBSET disk[l] : /\ found # {}
                                     /\ up' = [up EXCEPT !.pc = "head", !.file = Newest(found)]
  BY DEF Select
<1>. DEFINE f == Newest(found)
<1>1. up.pc = "next" /\ up.todo # {} /\ l = Min(up.todo)
      /\ up' = [up EXCEPT !.pc = "head", !.file = f]
      /\ UNCHANGED <<now, bucket, disk, writes, flying, kept>>
  BY <1>0 DEF Select, UploadAt, Uploading, OnlyUp
<1>2. disk[l] \in SUBSET File /\ up \in UploadPass
  BY DEF UploadInv, UploadType
<1>3. f \in disk[l]
  <2>1. found \in SUBSET File /\ \A g, h \in found : g.base = h.base => g = h
    BY <1>2 DEF UploadInv, FilesInv
  <2>2. f \in found
    BY <1>0, <2>1, NewestIsThere
  <2>. QED  BY <2>2
<1>. HIDE DEF f
<1>4. up' \in UploadPass /\ up'.pc = "head" /\ up'.file = f /\ up'.todo = up.todo
      /\ up'.pipe = up.pipe /\ f \in File
  BY <1>1, <1>2, <1>3 DEF UploadPass
<1>5. f.time <= now /\ f.base <= writes /\ (\A g \in disk[l] : g.base = f.base => g = f)
      /\ f.time \in Int
  <2>1. f.time \in Int
    BY <1>4, PadIs DEF File
  <2>. QED  BY <1>3, <2>1 DEF UploadInv, FilesInv
<1>6. SelectInv'
  BY <1>1, <1>4, <1>5 DEF SelectInv
<1>7. BodyInv'
  BY <1>1, <1>4 DEF UploadInv, BodyInv
<1>. QED  BY <1>1, <1>4, <1>6, <1>7 DEF UploadInv, UploadType, FilesInv, FlyingInv

\* The file at the path is opened: it is the selected one or a younger one.
LEMMA Opened ==
    ASSUME BucketAssumption, UploadInv, NEW l \in Labels, l = Min(up.todo), Held,
           NEW f \in AtPath(l)
    PROVE  BodyOf(f) \in Body /\ up.file.time <= BodyOf(f).time
<1>1. f \in disk[l] /\ f.base = up.file.base /\ f \in File
  BY DEF AtPath, UploadInv, UploadType
<1>. QED  BY <1>1, BodyTyped DEF UploadInv, SelectInv

\* HEAD, the first encryption, the open, the goroutine, the closing reader.
LEMMA OnTheWay ==
    ASSUME BucketAssumption, UploadInv, NEW l \in Labels,
           Missing(l) \/ Measure(l) \/ Open(l) \/ CloseReader(l) \/ OpenPlain(l) \/ SendBody(l)
               \/ BreakPipe(l)
    PROVE  UploadInv' /\ UNCHANGED <<now, bucket, kept>>
<1>. USE DEF OnlyUp, UploadAt, Uploading
<1>1. up \in UploadPass /\ up.todo # {} /\ l = Min(up.todo) /\ UNCHANGED <<now, bucket, kept>>
      /\ UNCHANGED <<disk, writes, flying>>
  BY DEF Missing, Measure, Open, CloseReader, OpenPlain, SendBody, BreakPipe, UploadInv, UploadType
<1>2. Held /\ (up.pipe # "none" => up.pc \in {"put", "close", "wait"})
  BY DEF Missing, Measure, Open, CloseReader, OpenPlain, SendBody, BreakPipe, UploadInv, BodyInv, Held
<1>3. CASE Missing(l) \/ Measure(l)
  <2>1. up' \in UploadPass /\ up'.pc \in {"measure", "open"} /\ up'.todo = up.todo
        /\ up'.file = up.file /\ up'.pipe = up.pipe /\ up.pc \in {"head", "measure"}
    <3>1. CASE Missing(l)
      BY <1>1, <3>1 DEF Missing, UploadPass
    <3>2. CASE Measure(l)
      <4>1. PICK f \in AtPath(l) : up' = [up EXCEPT !.pc = "open", !.length = BodyOf(f)]
        BY <3>2 DEF Measure
      <4>2. BodyOf(f) \in Body
        BY <1>1, <1>2, Opened
      <4>. QED  BY <1>1, <3>2, <4>1, <4>2 DEF Measure, UploadPass
    <3>. QED  BY <1>3, <3>1, <3>2
  <2>2. BodyInv'
    BY <1>2, <2>1 DEF BodyInv
  <2>. QED  BY <1>1, <1>2, <2>1, <2>2, GoingOn DEF Held
<1>4. CASE Open(l)
  <2>1. CASE Encrypted(l)
    <3>1. up' = [up EXCEPT !.pc = "put", !.pipe = "start"]
      BY <1>4, <2>1 DEF Open
    <3>2. up' \in UploadPass /\ up'.pc = "put" /\ up'.todo = up.todo
          /\ up'.file = up.file /\ up'.pipe = "start"
      BY <1>1, <3>1 DEF UploadPass
    <3>3. BodyInv'
      BY <1>1, <2>1, <3>2 DEF BodyInv, Encrypted
    <3>. QED  BY <1>1, <1>2, <3>2, <3>3, GoingOn DEF Held
  <2>2. CASE ~Encrypted(l)
    <3>1. PICK f \in AtPath(l) :
              up' = [up EXCEPT !.pc = "put", !.length = BodyOf(f), !.body = BodyOf(f)]
      BY <1>4, <2>2 DEF Open
    <3>2. BodyOf(f) \in Body /\ up.file.time <= BodyOf(f).time
      BY <1>1, <1>2, Opened
    <3>3. up' \in UploadPass /\ up'.pc = "put" /\ up'.todo = up.todo
          /\ up'.file = up.file /\ up'.body = BodyOf(f)
      BY <1>1, <3>1, <3>2 DEF UploadPass
    <3>4. BodyInv'
      BY <3>2, <3>3 DEF BodyInv
    <3>. QED  BY <1>1, <1>2, <3>3, <3>4, GoingOn DEF Held
  <2>. QED  BY <2>1, <2>2
<1>5. CASE OpenPlain(l)
  <2>1. PICK f \in AtPath(l) : up' = [up EXCEPT !.pipe = "writing", !.body = BodyOf(f)]
    BY <1>5 DEF OpenPlain
  <2>2. BodyOf(f) \in Body /\ up.file.time <= BodyOf(f).time
    BY <1>1, <1>2, Opened
  <2>3. up' \in UploadPass /\ up'.pc = up.pc /\ up'.todo = up.todo
        /\ up'.file = up.file /\ up'.body = BodyOf(f) /\ up.pipe = "start"
    BY <1>1, <1>5, <2>1, <2>2 DEF OpenPlain, UploadPass
  <2>4. BodyInv'
    BY <1>2, <2>2, <2>3 DEF BodyInv
  <2>. QED  BY <1>1, <1>2, <2>3, <2>4, GoingOn DEF Held
<1>6. CASE SendBody(l) \/ BreakPipe(l) \/ CloseReader(l)
  <2>1. up' \in UploadPass /\ up'.pc \in {"put", "close", "wait"} /\ up'.todo = up.todo
        /\ up'.file = up.file /\ up'.body = up.body
        /\ (up'.pc = "put" => up.pc = "put")
        /\ (up'.pipe \in {up.pipe, "broken"} \/ (up.pipe = "writing" /\ up'.pipe = "done"))
    BY <1>1, <1>2, <1>6 DEF SendBody, BreakPipe, CloseReader, UploadPass
  <2>2. BodyInv'
    BY <2>1 DEF UploadInv, BodyInv, Encrypted
  <2>. QED  BY <1>1, <1>2, <2>1, <2>2, GoingOn DEF Held
<1>. QED  BY <1>1, <1>3, <1>4, <1>5, <1>6

\* The steps that leave an entry without a request.
LEMMA LeavingKeeps ==
    ASSUME UploadInv, NEW l \in Labels,
           SkipUpload(l) \/ FailHead(l) \/ FailMeasure(l) \/ FailOpen(l) \/ Join(l)
    PROVE  UploadInv' /\ UNCHANGED <<now, bucket, kept>>
<1>1. LeaveUpload(l) /\ UNCHANGED <<now, bucket, disk, writes, flying, kept>>
  BY DEF SkipUpload, FailHead, FailMeasure, FailOpen, Join, OnlyUp
<1>2. up' \in UploadPass /\ up'.pc \in {"idle", "next"} /\ up'.pipe = "none"
  BY <1>1, LeavingUpload DEF UploadInv
<1>3. kept' \in [Labels -> Time \cup {Absent}]
  BY <1>1 DEF UploadInv, UploadType
<1>. QED  BY <1>1, <1>2, <1>3, NothingSelected

\* A pass starts, or is cancelled.
LEMMA PassStep ==
    ASSUME UploadInv, StartUpload \/ CancelUpload
    PROVE  UploadInv' /\ UNCHANGED <<now, bucket, kept>>
<1>1. UNCHANGED <<now, bucket, disk, writes, flying, kept>>
  BY DEF StartUpload, CancelUpload, OnlyUp
<1>2. up' \in UploadPass /\ up'.pc \in {"idle", "next"} /\ up'.pipe = "none"
  <2>1. NoUpload \in UploadPass /\ NoUpload.pc = "idle" /\ NoUpload.pipe = "none"
    BY DEF NoUpload, UploadPass
  <2>2. CASE StartUpload
    <3>1. up' = [NoUpload EXCEPT !.pc = "next", !.todo = Labels]
      BY <2>2 DEF StartUpload
    <3>. QED  BY <3>1 DEF NoUpload, UploadPass
  <2>3. CASE CancelUpload
    BY <2>1, <2>3 DEF CancelUpload
  <2>. QED  BY <2>2, <2>3
<1>3. kept' \in [Labels -> Time \cup {Absent}]
  BY <1>1 DEF UploadInv, UploadType
<1>. QED  BY <1>1, <1>2, <1>3, NothingSelected

\* The object is there already: its entry is dealt with.
LEMMA ExistingStep ==
    ASSUME BucketAssumption, EntryAssumption, UploadInv, BucketOK, Covered, NEW l \in Labels,
           Existing(l), DoneIsStored
    PROVE  UploadInv' /\ DoneIsStored' /\ UNCHANGED <<now, bucket>>
<1>. DEFINE key == KeyOf(l, up.file)
<1>1. up.pc = "head" /\ key \in DOMAIN bucket /\ kept' = [kept EXCEPT ![l] = up.file.time]
      /\ LeaveUpload(l) /\ UNCHANGED <<now, bucket, disk, writes, flying>>
  BY DEF Existing, UploadAt, Uploading
<1>2. up.file \in File /\ up.file.time \in Time
  BY <1>1 DEF UploadInv, UploadType, File
<1>3. key \in Key /\ key.label = l /\ key.pad = Pad(up.file.time)
  BY <1>2, KeyTyped
<1>. HIDE DEF key
<1>4. bucket[key] \in Body /\ bucket[key].time \in Time /\ Pad(bucket[key].time) <= key.pad
  BY <1>1 DEF BucketOK, Covered, Body
<1>5. up.file.time <= bucket[key].time
  BY <1>2, <1>3, <1>4, PadIs
<1>6. up' \in UploadPass /\ up'.pc \in {"idle", "next"} /\ up'.pipe = "none"
  BY <1>1, LeavingUpload DEF UploadInv
<1>7. kept' \in [Labels -> Time \cup {Absent}]
  BY <1>1, <1>2 DEF UploadInv, UploadType
<1>8. UploadInv'
  BY <1>1, <1>6, <1>7, NothingSelected
<1>9. DoneIsStored'
  <2>. SUFFICES ASSUME NEW m \in Labels, kept'[m] # Absent
       PROVE  \E k \in KeysOf(m) : k.pad = Pad(kept'[m]) /\ bucket[k].time >= kept'[m]
    BY <1>1 DEF DoneIsStored, KeysOf
  <2>1. CASE m = l
    <3>1. kept'[m] = up.file.time
      BY <1>1, <2>1 DEF UploadInv, UploadType
    <3>2. key \in KeysOf(m)
      BY <1>1, <1>3, <2>1 DEF KeysOf
    <3>3. bucket[key].time >= up.file.time
      BY <1>2, <1>4, <1>5, PadIs
    <3>. QED  BY <1>3, <3>1, <3>2, <3>3
  <2>2. CASE m # l
    BY <1>1, <2>2 DEF DoneIsStored, UploadInv, UploadType
  <2>. QED  BY <2>1, <2>2
<1>. QED  BY <1>1, <1>8, <1>9

\* A PUT of a body that covers its key: what was stored stays stored.
LEMMA StoringKeeps ==
    ASSUME BucketAssumption, UploadType, BucketOK, Covered, DoneIsStored,
           NEW key \in Key, NEW body \in Body, Pad(body.time) <= key.pad,
           bucket' = WithObject(key, body), now' = now
    PROVE  /\ BucketOK' /\ Covered' /\ DOMAIN bucket \subseteq DOMAIN bucket'
           /\ \A l \in Labels : kept[l] # Absent =>
                  \E k \in KeysOf(l)' : k.pad = Pad(kept[l]) /\ bucket'[k].time >= kept[l]
<1>1. DOMAIN bucket' = DOMAIN bucket \cup {key}
  BY DEF WithObject
<1>2. \A k \in DOMAIN bucket' : bucket'[k] = IF k = key THEN body ELSE bucket[k]
  BY DEF WithObject
<1>3. BucketOK' /\ Covered'
  BY <1>1, <1>2 DEF BucketOK, Covered
<1>4. ASSUME NEW l \in Labels, kept[l] # Absent
      PROVE  \E k \in KeysOf(l)' : k.pad = Pad(kept[l]) /\ bucket'[k].time >= kept[l]
  <2>1. PICK k \in KeysOf(l) : k.pad = Pad(kept[l]) /\ bucket[k].time >= kept[l]
    BY <1>4 DEF DoneIsStored
  <2>2. k \in KeysOf(l)'
    BY <1>1 DEF KeysOf
  <2>3. kept[l] \in Time
    BY <1>4 DEF UploadType
  <2>4. CASE k = key
    <3>1. bucket'[k] = body /\ body.time \in Time
      BY <1>1, <1>2, <2>4 DEF Body
    <3>2. kept[l] <= body.time
      BY <2>1, <2>3, <2>4, <3>1, PadIs
    <3>3. kept[l] \in Int /\ body.time \in Int
      BY <2>3, <3>1, PadIs
    <3>. QED  BY <2>1, <2>2, <3>1, <3>2, <3>3
  <2>5. CASE k # key
    <3>1. bucket'[k] = bucket[k]
      BY <1>2, <2>2, <2>5 DEF KeysOf
    <3>. QED  BY <2>1, <2>2, <3>1
  <2>. QED  BY <2>4, <2>5
<1>. QED  BY <1>1, <1>3, <1>4

\* A body that was all sent covers the key of its request.
LEMMA SentCovers ==
    ASSUME BucketAssumption, EntryAssumption, UploadInv, NEW l \in Labels, Sent(l)
    PROVE  /\ up.file \in File /\ KeyOf(l, up.file) \in Key /\ up.body \in Body
           /\ KeyOf(l, up.file).label = l /\ KeyOf(l, up.file).pad = Pad(up.file.time)
           /\ Pad(up.body.time) <= KeyOf(l, up.file).pad
           /\ up.file.time <= up.body.time /\ up.file.time \in Time /\ up.body.time \in Time
<1>1. up.pc = "put" /\ l = Min(up.todo) /\ (Encrypted(l) => up.pipe = "done")
  BY DEF Sent, UploadAt, Uploading
<1>2. up.file \in File /\ up.file.time \in Time
  BY <1>1 DEF UploadInv, UploadType, File
<1>3. up.body \in Body /\ up.file.time <= up.body.time /\ up.body.time \in Time
  BY <1>1 DEF UploadInv, BodyInv, Body
<1>4. KeyOf(l, up.file) \in Key /\ KeyOf(l, up.file).label = l
      /\ KeyOf(l, up.file).pad = Pad(up.file.time)
  BY <1>2, KeyTyped
<1>5. Pad(up.body.time) <= Pad(up.file.time)
  BY <1>2, <1>3, PadIs
<1>. QED  BY <1>2, <1>3, <1>4, <1>5

\* So does as much of it as was announced.
LEMMA ReceivedCovers ==
    ASSUME BucketAssumption, EntryAssumption, UploadInv, NEW l \in Labels, Sent(l),
           NEW body \in {up.body, [up.body EXCEPT !.whole = FALSE]}
    PROVE  LET o == Request(l, body)
           IN  o.key \in Key /\ o.body \in Body /\ Pad(o.body.time) <= o.key.pad
<1>1. up.body \in Body
  BY SentCovers
<1>2. body \in Body /\ body.time = up.body.time
  BY <1>1 DEF Body
<1>. QED  BY <1>2, SentCovers DEF Request

\* After a request a plain upload is over, an encrypted one closes its reader.
LEMMA AfterRequest ==
    ASSUME BucketAssumption, UploadInv, NEW l \in Labels, UploadAt(l, "put"), AfterPut(l),
           UNCHANGED <<now, disk, writes>>,
           \A o \in flying' : o.key \in Key /\ o.body \in Body /\ Pad(o.body.time) <= o.key.pad,
           kept' \in [Labels -> Time \cup {Absent}]
    PROVE  UploadInv'
<1>1. up \in UploadPass /\ up.pc = "put" /\ l = Min(up.todo) /\ up.todo # {} /\ up.file \in File
  BY DEF UploadAt, Uploading, UploadInv, UploadType
<1>2. CASE Encrypted(l)
  <2>1. up' = [up EXCEPT !.pc = "close"]
    BY <1>2 DEF AfterPut
  <2>2. up' \in UploadPass /\ up'.pc = "close" /\ up'.todo = up.todo /\ up'.file = up.file
        /\ up'.body = up.body /\ up'.pipe = up.pipe
    BY <1>1, <2>1 DEF UploadPass
  <2>3. UploadType'
    BY <1>1, <2>2 DEF UploadInv, UploadType
  <2>4. SelectInv' /\ BodyInv'
    BY <1>1, <2>2 DEF UploadInv, SelectInv, Held, BodyInv
  <2>. QED  BY <2>3, <2>4 DEF UploadInv, FilesInv, FlyingInv
<1>3. CASE ~Encrypted(l)
  <2>1. up' \in UploadPass /\ up'.pc \in {"idle", "next"} /\ up'.pipe = "none"
    BY <1>3, LeavingUpload DEF AfterPut, UploadInv
  <2>2. UploadType'
    BY <2>1 DEF UploadInv, UploadType
  <2>3. SelectInv' /\ BodyInv'
    BY <2>1 DEF SelectInv, Held, BodyInv
  <2>. QED  BY <2>2, <2>3 DEF UploadInv, FilesInv, FlyingInv
<1>. QED  BY <1>2, <1>3

\* The request.
LEMMA PutStep ==
    ASSUME BucketAssumption, EntryAssumption, UploadInv, BucketOK, Covered, DoneIsStored,
           NEW l \in Labels, Put(l)
    PROVE  UploadInv' /\ DoneIsStored' /\ BucketOK' /\ Covered'
           /\ DOMAIN bucket \subseteq DOMAIN bucket'
<1>. DEFINE key == KeyOf(l, up.file)
<1>1. Sent(l) /\ UploadAt(l, "put") /\ AfterPut(l) /\ UNCHANGED <<now, disk, writes, flying>>
      /\ bucket' = WithObject(key, up.body) /\ kept' = [kept EXCEPT ![l] = up.file.time]
  BY DEF Put, Sent
<1>2. up.file \in File /\ key \in Key /\ up.body \in Body /\ key.label = l
      /\ key.pad = Pad(up.file.time) /\ Pad(up.body.time) <= key.pad
      /\ up.file.time <= up.body.time /\ up.file.time \in Time /\ up.body.time \in Time
  BY <1>1, SentCovers
<1>. HIDE DEF key
<1>3. BucketOK' /\ Covered' /\ DOMAIN bucket \subseteq DOMAIN bucket'
  BY <1>1, <1>2, StoringKeeps DEF UploadInv
<1>4. kept' \in [Labels -> Time \cup {Absent}]
  BY <1>1, <1>2 DEF UploadInv, UploadType
<1>5. \A o \in flying' : o.key \in Key /\ o.body \in Body /\ Pad(o.body.time) <= o.key.pad
  BY <1>1 DEF UploadInv, UploadType, FlyingInv
<1>6. UploadInv'
  BY <1>1, <1>4, <1>5, AfterRequest
<1>7. DoneIsStored'
  <2>. SUFFICES ASSUME NEW m \in Labels, kept'[m] # Absent
       PROVE  \E k \in KeysOf(m)' : k.pad = Pad(kept'[m]) /\ bucket'[k].time >= kept'[m]
    BY DEF DoneIsStored
  <2>1. CASE m = l
    <3>1. kept'[m] = up.file.time
      BY <1>1, <2>1 DEF UploadInv, UploadType
    <3>2. key \in KeysOf(m)' /\ bucket'[key] = up.body
      BY <1>1, <1>2, <2>1 DEF KeysOf, WithObject
    <3>3. up.body.time >= up.file.time
      BY <1>2, PadIs
    <3>. QED  BY <1>2, <3>1, <3>2, <3>3
  <2>2. CASE m # l
    <3>1. kept'[m] = kept[m]
      BY <1>1, <2>2 DEF UploadInv, UploadType
    <3>. QED  BY <1>1, <1>2, <3>1, StoringKeeps DEF UploadInv
  <2>. QED  BY <2>1, <2>2
<1>. QED  BY <1>3, <1>6, <1>7

\* A request fails, and may still be carried out when it was all sent.
LEMMA FailPutStep ==
    ASSUME BucketAssumption, EntryAssumption, UploadInv, NEW l \in Labels, FailPut(l)
    PROVE  UploadInv' /\ UNCHANGED <<now, bucket, kept>>
<1>1. UploadAt(l, "put") /\ AfterPut(l) /\ UNCHANGED <<now, bucket, disk, writes, kept>>
  BY DEF FailPut
<1>2. \A o \in flying' : o.key \in Key /\ o.body \in Body /\ Pad(o.body.time) <= o.key.pad
  <2>1. \/ flying' = flying
        \/ /\ Sent(l)
           /\ \E body \in {up.body, [up.body EXCEPT !.whole = FALSE]} :
                  flying' = flying \cup {Request(l, body)}
    BY DEF FailPut, Received
  <2>. QED  BY <2>1, ReceivedCovers DEF UploadInv, UploadType, FlyingInv
<1>3. kept' \in [Labels -> Time \cup {Absent}]
  BY <1>1 DEF UploadInv, UploadType
<1>. QED  BY <1>1, <1>2, <1>3, AfterRequest

\* A crash: the same, and the pass is over.
LEMMA CrashUploadStep ==
    ASSUME BucketAssumption, EntryAssumption, UploadInv, CrashUpload
    PROVE  UploadInv' /\ UNCHANGED <<now, bucket, kept>>
<1>1. UNCHANGED <<now, bucket, disk, writes, kept>> /\ up' = NoUpload
  BY DEF CrashUpload
<1>2. \A o \in flying' : o.key \in Key /\ o.body \in Body /\ Pad(o.body.time) <= o.key.pad
  <2>1. \/ flying' = flying
        \/ \E l \in Labels :
               /\ Sent(l)
               /\ \E body \in {up.body, [up.body EXCEPT !.whole = FALSE]} :
                      flying' = flying \cup {Request(l, body)}
    BY DEF CrashUpload, Received
  <2>. QED  BY <2>1, ReceivedCovers DEF UploadInv, UploadType, FlyingInv
<1>3. up' \in UploadPass /\ up'.pc = "idle" /\ up'.pipe = "none"
  BY <1>1 DEF NoUpload, UploadPass
<1>4. UploadType'
  BY <1>1, <1>2, <1>3 DEF UploadInv, UploadType
<1>. QED  BY <1>1, <1>2, <1>3, <1>4 DEF UploadInv, FilesInv, SelectInv, Held, BodyInv, FlyingInv

\* A request that was given up is carried out.
LEMMA LandStep ==
    ASSUME BucketAssumption, UploadInv, BucketOK, Covered, DoneIsStored, Land
    PROVE  UploadInv' /\ DoneIsStored' /\ BucketOK' /\ Covered'
           /\ DOMAIN bucket \subseteq DOMAIN bucket'
<1>1. PICK o \in flying : /\ bucket' = WithObject(o.key, o.body) /\ flying' = flying \ {o}
                          /\ UNCHANGED <<now, disk, writes, up, kept>>
  BY DEF Land
<1>2. o.key \in Key /\ o.body \in Body /\ Pad(o.body.time) <= o.key.pad
  BY DEF UploadInv, UploadType, FlyingInv
<1>3. /\ BucketOK' /\ Covered' /\ DOMAIN bucket \subseteq DOMAIN bucket'
      /\ \A l \in Labels : kept[l] # Absent =>
            \E k \in KeysOf(l)' : k.pad = Pad(kept[l]) /\ bucket'[k].time >= kept[l]
  BY <1>1, <1>2, StoringKeeps DEF UploadInv
<1>4. DoneIsStored'
  BY <1>1, <1>3 DEF DoneIsStored
<1>5. UploadInv'
  BY <1>1 DEF UploadInv, UploadType, FilesInv, SelectInv, Held, BodyInv, FlyingInv
<1>. QED  BY <1>3, <1>4, <1>5

(***************************************************************************)
(* The programs that write the files, and the clock.                       *)
(***************************************************************************)

\* A file under a new name, or a younger one under its name: what was selected is
\* not older than what is there.
LEMMA ProduceStep ==
    ASSUME BucketAssumption, EntryAssumption, BucketOK, UploadInv, NEW l \in Labels, Produce(l)
    PROVE  UploadInv' /\ UNCHANGED <<now, bucket, kept>>
<1>1. UNCHANGED <<now, bucket, up, flying, kept>>
  BY DEF Produce, Replace, Stage, Finish, Prune
<1>2. now \in Time /\ now \in Int /\ disk \in [Labels -> SUBSET File] /\ writes \in 0 .. MaxWrites
      /\ MaxWrites \in Nat
  BY PadIs DEF BucketOK, BucketAssumption, UploadInv, UploadType
<1>3. Held => up.file.time \in Int /\ up.file.base \in Int /\ up.file.time <= now
              /\ up.file.base <= writes
  BY PadIs DEF UploadInv, UploadType, SelectInv, Held, File
<1>4. disk' \in [Labels -> SUBSET File] /\ writes' \in 0 .. MaxWrites /\ FilesInv' /\ SelectInv'
  <2>1. CASE Replace(l)
    <3>. DEFINE f == NewFile(0, "db", writes + 1)
    <3>1. disk' = [disk EXCEPT ![l] = {f}] /\ writes' = writes + 1 /\ writes < MaxWrites
      BY <2>1 DEF Replace
    <3>2. f \in File /\ f.time = now /\ f.base = 0
      BY <1>2, <3>1 DEF NewFile, File, Exts
    <3>. HIDE DEF f
    <3>3. disk' \in [Labels -> SUBSET File] /\ writes' \in 0 .. MaxWrites
      BY <1>2, <3>1, <3>2
    <3>4. FilesInv'
      BY <1>1, <1>2, <3>1, <3>2 DEF UploadInv, FilesInv, File
    <3>5. SelectInv'
      BY <1>1, <1>2, <1>3, <3>1, <3>2 DEF UploadInv, SelectInv, Held
    <3>. QED  BY <3>3, <3>4, <3>5
  <2>2. CASE Stage(l)
    <3>. DEFINE f == NewFile(writes + 1, "tmp", writes + 1)
    <3>1. disk' = [disk EXCEPT ![l] = @ \cup {f}] /\ writes' = writes + 1 /\ writes < MaxWrites
      BY <2>2 DEF Stage
    <3>2. f \in File /\ f.time = now /\ f.base = writes + 1
      BY <1>2, <3>1 DEF NewFile, File, Exts
    <3>. HIDE DEF f
    <3>3. disk' \in [Labels -> SUBSET File] /\ writes' \in 0 .. MaxWrites
      BY <1>2, <3>1, <3>2
    <3>4. FilesInv'
      BY <1>1, <1>2, <3>1, <3>2 DEF UploadInv, FilesInv, File
    <3>5. SelectInv'
      BY <1>1, <1>2, <1>3, <3>1, <3>2 DEF UploadInv, SelectInv, Held
    <3>. QED  BY <3>3, <3>4, <3>5
  <2>3. CASE Finish(l)
    <3>1. PICK g \in disk[l] :
            disk' = [disk EXCEPT ![l] = (@ \ {g}) \cup {NewFile(g.base, "db", g.ver)}]
      BY <2>3 DEF Finish
    <3>. DEFINE f == NewFile(g.base, "db", g.ver)
    <3>2. f \in File /\ f.time = now /\ f.base = g.base /\ g \in File
      BY <1>2 DEF NewFile, File, Exts
    <3>3. disk' = [disk EXCEPT ![l] = (@ \ {g}) \cup {f}] /\ writes' = writes
      BY <2>3, <3>1 DEF Finish
    <3>. HIDE DEF f
    <3>4. disk' \in [Labels -> SUBSET File] /\ writes' \in 0 .. MaxWrites
      BY <1>2, <3>2, <3>3
    <3>5. FilesInv'
      BY <1>1, <1>2, <3>2, <3>3 DEF UploadInv, FilesInv, File
    <3>6. SelectInv'
      BY <1>1, <1>2, <1>3, <3>2, <3>3 DEF UploadInv, SelectInv, Held
    <3>. QED  BY <3>4, <3>5, <3>6
  <2>4. CASE Prune(l)
    <3>1. PICK g \in disk[l] : disk' = [disk EXCEPT ![l] = @ \ {g}]
      BY <2>4 DEF Prune
    <3>2. writes' = writes
      BY <2>4 DEF Prune
    <3>3. disk' \in [Labels -> SUBSET File]
      BY <1>2, <3>1
    <3>4. \A m \in Labels : disk'[m] \subseteq disk[m]
      BY <1>2, <3>1
    <3>5. FilesInv'
      BY <1>1, <3>2, <3>4 DEF UploadInv, FilesInv
    <3>6. SelectInv'
      <4>1. Held => Min(up.todo) \in Labels
        BY InHand DEF UploadInv, UploadType, UploadPass, Held
      <4>. QED  BY <1>1, <3>2, <3>4, <4>1 DEF UploadInv, SelectInv, Held
    <3>. QED  BY <1>2, <3>2, <3>3, <3>5, <3>6
  <2>. QED  BY <2>1, <2>2, <2>3, <2>4 DEF Produce
<1>5. UploadType'
  BY <1>1, <1>4 DEF UploadInv, UploadType
<1>. QED  BY <1>1, <1>4, <1>5 DEF UploadInv, BodyInv, FlyingInv

(***************************************************************************)
(* The two machines.                                                       *)
(***************************************************************************)

\* A step of the uploading machine: the bucket only grows, and what it holds
\* covers its keys.
LEMMA UploadKeeps ==
    ASSUME BucketAssumption, EntryAssumption, UploadInv, BucketOK, Covered, DoneIsStored,
           UploadNext
    PROVE  /\ UploadInv' /\ DoneIsStored' /\ BucketOK' /\ Covered'
           /\ DOMAIN bucket \subseteq DOMAIN bucket' /\ now' = now
<1>1. ASSUME UNCHANGED <<now, bucket, kept>>
      PROVE  DoneIsStored' /\ BucketOK' /\ Covered' /\ DOMAIN bucket \subseteq DOMAIN bucket'
             /\ now' = now
  BY <1>1 DEF DoneIsStored, KeysOf, BucketOK, Covered
<1>2. CASE StartUpload \/ CancelUpload
  BY <1>1, <1>2, PassStep
<1>3. CASE CrashUpload
  BY <1>1, <1>3, CrashUploadStep
<1>4. CASE Land
  BY <1>4, LandStep DEF Land
<1>5. ASSUME NEW l \in Labels, Produce(l)
      PROVE  UploadInv' /\ UNCHANGED <<now, bucket, kept>>
  BY <1>5, ProduceStep
<1>6. ASSUME NEW l \in Labels, Producer(l)
      PROVE  UploadInv' /\ UNCHANGED <<now, bucket, kept>>
  BY <1>6, OnTheWay DEF Producer
<1>7. ASSUME NEW l \in Labels, UploadEntry(l)
      PROVE  /\ UploadInv' /\ DoneIsStored' /\ BucketOK' /\ Covered'
             /\ DOMAIN bucket \subseteq DOMAIN bucket' /\ now' = now
  <2>1. CASE SkipUpload(l) \/ FailHead(l) \/ FailMeasure(l) \/ FailOpen(l) \/ Join(l)
    BY <1>1, <2>1, LeavingKeeps
  <2>2. CASE Select(l)
    BY <1>1, <2>2, SelectStep DEF Select, OnlyUp
  <2>3. CASE Missing(l) \/ Measure(l) \/ Open(l) \/ CloseReader(l)
    BY <1>1, <2>3, OnTheWay
  <2>4. CASE Existing(l)
    BY <2>4, ExistingStep DEF BucketOK, Covered
  <2>5. CASE Put(l)
    BY <2>5, PutStep DEF Put
  <2>6. CASE FailPut(l)
    BY <1>1, <2>6, FailPutStep
  <2>. QED  BY <1>7, <2>1, <2>2, <2>3, <2>4, <2>5, <2>6 DEF UploadEntry
<1>. QED  BY <1>1, <1>2, <1>3, <1>4, <1>5, <1>6, <1>7 DEF UploadNext, UploadStep

\* While it works, the downloads stay what they are.
LEMMA DownloadStays ==
    ASSUME BucketAssumption, DownloadInv, UNCHANGED downloadVars, now' = now,
           BucketOK', Covered', DOMAIN bucket \subseteq DOMAIN bucket'
    PROVE  DownloadInv'
<1>. USE DEF downloadVars
<1>1. DownloadType' /\ FetchInv'
  BY DEF DownloadInv, DownloadOK, DownloadType, FetchInv, Fetched
<1>2. DueInv'
  BY DEF DownloadInv, DueInv, OldEnough, Fetched
<1>3. Honest' /\ PartialNeverLooksComplete' /\ MinIntervalKept' /\ ServedIsOnDisk'
  BY DEF DownloadInv, Honest, PartialNeverLooksComplete, MinIntervalKept, ServedIsOnDisk
<1>. QED  BY <1>1, <1>2, <1>3 DEF DownloadInv, DownloadOK

\* A step of the downloading machine.
LEMMA DownloadKeeps ==
    ASSUME BucketAssumption, DownloadAssumption, DownloadInv, DownloadNext
    PROVE  DownloadInv' /\ UNCHANGED <<now, bucket>>
<1>1. CASE StartDownload \/ CancelDownload \/ CrashDownload
  <2>1. UNCHANGED <<now, bucket, dest, temp, held>>
    BY <1>1 DEF StartDownload, CancelDownload, CrashDownload, OnlyDl
  <2>2. dl' \in DownloadPass /\ dl'.pc \in {"idle", "next"}
    <3>1. NoDownload \in DownloadPass /\ NoDownload.pc = "idle"
      BY DEF NoDownload, DownloadPass
    <3>2. CASE StartDownload
      <4>1. dl' = [NoDownload EXCEPT !.pc = "next", !.todo = Labels]
        BY <3>2 DEF StartDownload
      <4>. QED  BY <4>1 DEF NoDownload, DownloadPass
    <3>3. CASE CancelDownload \/ CrashDownload
      BY <3>1, <3>3 DEF CancelDownload, CrashDownload
    <3>. QED  BY <1>1, <3>2, <3>3
  <2>3. DownloadOK'
    BY <2>1, <2>2 DEF DownloadInv, DownloadOK, BucketOK, Covered, DownloadType, FetchInv
  <2>4. DueInv'
    BY <2>2 DEF DueInv
  <2>5. Honest' /\ PartialNeverLooksComplete' /\ MinIntervalKept' /\ ServedIsOnDisk'
    BY <2>1 DEF DownloadInv, Honest, PartialNeverLooksComplete, MinIntervalKept, ServedIsOnDisk
  <2>. QED  BY <2>1, <2>3, <2>4, <2>5 DEF DownloadInv
<1>2. CASE DownloadStep
  <2>1. PICK l \in Labels : DownloadEntry(l)
    BY <1>2 DEF DownloadStep
  <2>2. DownloadOK' /\ UNCHANGED <<now, bucket>>
        /\ (FoundHere(l) \/ FileArrives(l) \/ UNCHANGED <<dest, held>>)
    BY <2>1, EntryKeeps DEF DownloadInv
  <2>3. (DueInv /\ MinIntervalKept)'
    BY <2>1, EntryKeepsIntervals DEF DownloadInv
  <2>4. PartialNeverLooksComplete'
    BY <2>2 DEF DownloadInv, PartialNeverLooksComplete, FoundHere, FileArrives
  <2>5. ServedIsOnDisk'
    <3>1. CASE UNCHANGED <<dest, held>>
      BY <3>1 DEF DownloadInv, ServedIsOnDisk
    <3>2. held \in [Labels -> {Pad(t) : t \in Time} \cup {Absent}] /\ dest \subseteq Download
      BY DEF DownloadInv, DownloadOK, DownloadType
    <3>3. \A f \in dest : f.key.pad \in Nat
      BY <3>2, PadIs DEF Download, Key
    <3>4. CASE FoundHere(l)
      <4>1. PICK f \in dest : f.key.label = l /\ held' = [held EXCEPT ![l] = f.key.pad]
        BY <3>4 DEF FoundHere
      <4>2. f.key.pad <= f.key.pad /\ Pad(f.body.time) <= f.key.pad
        BY <3>3 DEF DownloadInv, Honest
      <4>. QED  BY <3>2, <3>4, <4>1, <4>2 DEF DownloadInv, ServedIsOnDisk, FoundHere
    <3>5. CASE FileArrives(l)
      <4>1. PICK f \in Fetched :
              /\ f.key.label = l /\ Pad(f.body.time) <= f.key.pad
              /\ dest' = (dest \ FileAt(dest, f.key)) \cup {f}
              /\ held' = [held EXCEPT ![l] = f.key.pad]
        BY <3>5 DEF FileArrives
      <4>2. f \in Download /\ f.key.pad \in Nat
        BY PadIs DEF Fetched, FileAt, DownloadInv, DownloadOK, DownloadType, Download, Key
      <4>3. ASSUME NEW m \in Labels, held'[m] # Absent
            PROVE  \E g \in dest' : /\ g.key.label = m /\ g.key.pad <= held'[m]
                                    /\ Pad(g.body.time) <= held'[m]
        <5>1. CASE m = l
          <6>1. held'[m] = f.key.pad /\ f \in dest'
            BY <3>2, <4>1, <5>1
          <6>. QED  BY <4>1, <4>2, <5>1, <6>1
        <5>2. CASE m # l
          <6>1. held'[m] = held[m]
            BY <3>2, <4>1, <5>2
          <6>2. PICK g \in dest : /\ g.key.label = m /\ g.key.pad <= held[m]
                                  /\ Pad(g.body.time) <= held[m]
            BY <4>3, <6>1 DEF DownloadInv, ServedIsOnDisk
          <6>3. g \in dest'
            BY <4>1, <5>2, <6>2 DEF FileAt
          <6>. QED  BY <6>1, <6>2, <6>3
        <5>. QED  BY <5>1, <5>2
      <4>. QED  BY <4>3 DEF ServedIsOnDisk
    <3>. QED  BY <2>2, <3>1, <3>4, <3>5
  <2>6. Honest'
    BY <2>2 DEF DownloadInv, Honest, FoundHere, FileArrives
  <2>. QED  BY <2>2, <2>3, <2>4, <2>5, <2>6 DEF DownloadInv
<1>. QED  BY <1>1, <1>2 DEF DownloadNext

\* The clock.
LEMMA ClockKeeps ==
    ASSUME BucketAssumption, DownloadAssumption, UploadInv, DoneIsStored, DownloadInv, Clock
    PROVE  UploadInv' /\ DoneIsStored' /\ DownloadInv'
<1>. USE DEF uploadVars, downloadVars
<1>1. now' = now + 1 /\ now < MaxTime /\ UNCHANGED <<bucket, uploadVars, downloadVars>>
  BY DEF Clock, Tick
<1>2. now \in Time /\ now \in Int /\ now' \in Time /\ now <= now'
  BY <1>1 DEF DownloadInv, DownloadOK, BucketOK, BucketAssumption, Time
<1>3. \A l \in Labels : \A f \in disk[l] : f.time \in Int
  BY PadIs DEF UploadInv, UploadType, File
<1>4. Held => up.file.time \in Int
  BY PadIs DEF UploadInv, UploadType, Held, File
<1>5. FilesInv' /\ SelectInv'
  BY <1>1, <1>2, <1>3, <1>4 DEF UploadInv, FilesInv, SelectInv, Held
<1>6. UploadInv'
  BY <1>1, <1>5 DEF UploadInv, UploadType, BodyInv, FlyingInv
<1>7. DoneIsStored'
  BY <1>1 DEF DoneIsStored, KeysOf
<1>8. DownloadOK'
  BY <1>1, <1>2 DEF DownloadInv, DownloadOK, BucketOK, Covered, DownloadType, FetchInv, Fetched
<1>9. DueInv'
  <2>1. \A f \in dest : f.mtime \in Int
    BY PadIs DEF DownloadInv, DownloadOK, DownloadType, Download
  <2>2. dl.todo # {} => Min(dl.todo) \in Labels
    BY InHand DEF DownloadInv, DownloadOK, DownloadType, DownloadPass
  <2>3. ASSUME NEW l \in Labels, OldEnough(l, now)
        PROVE  OldEnough(l, now')
    <3>1. Interval[l] \in Int
      BY DEF DownloadAssumption
    <3>. QED  BY <1>1, <1>2, <2>1, <2>3, <3>1 DEF OldEnough
  <2>. QED  BY <1>1, <2>2, <2>3 DEF DownloadInv, DueInv, Fetched, OldEnough
<1>10. Honest' /\ PartialNeverLooksComplete' /\ MinIntervalKept' /\ ServedIsOnDisk'
  BY <1>1 DEF DownloadInv, Honest, PartialNeverLooksComplete, MinIntervalKept, ServedIsOnDisk
<1>. QED  BY <1>6, <1>7, <1>8, <1>9, <1>10 DEF DownloadInv

-----------------------------------------------------------------------------
(* The theorems.                                                           *)

\* At the start there is nothing.
LEMMA InitInv ==
    ASSUME BucketAssumption, EntryAssumption, DownloadAssumption, Init
    PROVE  Inv
<1>. USE DEF Init, UploadInit, DownloadInit
<1>1. now \in Time /\ spent \in 0 .. MaxEvents /\ writes \in 0 .. MaxWrites /\ DOMAIN bucket = {}
  BY DEF BucketAssumption, Time
<1>2. NoUpload \in UploadPass /\ NoUpload.pc = "idle" /\ NoUpload.pipe = "none"
  BY DEF NoUpload, UploadPass
<1>3. NoDownload \in DownloadPass /\ NoDownload.pc = "idle"
  BY DEF NoDownload, DownloadPass
<1>4. UploadInv
  BY <1>1, <1>2 DEF UploadInv, UploadType, FilesInv, SelectInv, Held, BodyInv, FlyingInv
<1>5. DownloadOK
  BY <1>1, <1>3 DEF DownloadOK, BucketOK, Covered, DownloadType, FetchInv
<1>6. DueInv /\ Honest /\ PartialNeverLooksComplete /\ MinIntervalKept /\ ServedIsOnDisk
  BY <1>3 DEF DueInv, Honest, PartialNeverLooksComplete, MinIntervalKept, ServedIsOnDisk
<1>7. DoneIsStored
  BY DEF DoneIsStored
<1>. QED  BY <1>1, <1>4, <1>5, <1>6, <1>7 DEF Inv, DownloadInv

\* One entry of an upload pass.
LEMMA UploadEntryCounts == \A l \in Labels : UploadEntry(l) => Counted
<1>. SUFFICES ASSUME NEW l \in Labels, UploadEntry(l) PROVE Counted
  OBVIOUS
<1>. USE DEF Counted, Inject
<1>1. CASE SkipUpload(l) \/ Select(l) \/ Existing(l) \/ Missing(l)
  BY <1>1 DEF SkipUpload, Select, Existing, Missing
<1>2. CASE FailHead(l)
  BY <1>2 DEF FailHead
<1>3. CASE Measure(l) \/ Open(l) \/ Put(l) \/ CloseReader(l) \/ Join(l)
  BY <1>3 DEF Measure, Open, Put, CloseReader, Join
<1>4. CASE FailMeasure(l)
  BY <1>4 DEF FailMeasure
<1>5. CASE FailOpen(l)
  BY <1>5 DEF FailOpen
<1>6. CASE FailPut(l)
  BY <1>6 DEF FailPut
<1>. QED  BY <1>1, <1>2, <1>3, <1>4, <1>5, <1>6 DEF UploadEntry

\* The goroutine of an upload, and the programs that write the files.
LEMMA ProducerCounts == \A l \in Labels : Produce(l) \/ Producer(l) => Counted
<1>. SUFFICES ASSUME NEW l \in Labels, Produce(l) \/ Producer(l) PROVE Counted
  OBVIOUS
<1>. USE DEF Counted, Inject
<1>1. CASE OpenPlain(l) \/ SendBody(l) \/ Replace(l) \/ Stage(l) \/ Finish(l)
  BY <1>1 DEF OpenPlain, SendBody, Replace, Stage, Finish
<1>2. CASE BreakPipe(l)
  BY <1>2 DEF BreakPipe
<1>3. CASE Prune(l)
  BY <1>3 DEF Prune
<1>. QED  BY <1>1, <1>2, <1>3 DEF Produce, Producer

\* Failures are counted up to their bound.
LEMMA SpentKeeps ==
    ASSUME BucketAssumption, spent \in 0 .. MaxEvents, Next
    PROVE  spent' \in 0 .. MaxEvents
<1>0. Counted => spent' \in 0 .. MaxEvents
  BY CountedStays
<1>1. CASE UploadNext
  <2>1. StartUpload \/ CancelUpload \/ CrashUpload \/ Land => Counted
    BY DEF Counted, Inject, StartUpload, CancelUpload, CrashUpload, Land
  <2>2. Counted
    BY <1>1, <2>1, UploadEntryCounts, ProducerCounts DEF UploadNext, UploadStep
  <2>. QED  BY <2>2, <1>0
<1>2. CASE DownloadNext
  <2>1. StartDownload \/ CancelDownload \/ CrashDownload => Counted
    BY DEF Counted, Inject, StartDownload, CancelDownload, CrashDownload
  <2>2. Counted
    BY <1>2, <2>1, DownloadEntryCounts
        DEF DownloadNext, DownloadStep
  <2>. QED  BY <2>2, <1>0
<1>3. CASE Clock
  BY <1>0, <1>3 DEF Clock, Counted
<1>. QED  BY <1>1, <1>2, <1>3 DEF Next

\* The invariant of the archive: the two passes, each with what it has in hand,
\* and the properties.
THEOREM Inductive == Spec => []Inv
<1>. USE BucketAssumption, EntryAssumption, DownloadAssumption
<1>1. Init => Inv
  BY InitInv
<1>2. Inv /\ [Next]_vars => Inv'
  <2>. SUFFICES ASSUME Inv, [Next]_vars PROVE Inv'
    OBVIOUS
  <2>1. CASE UploadNext /\ UNCHANGED downloadVars
    <3>1. /\ UploadInv' /\ DoneIsStored' /\ BucketOK' /\ Covered'
          /\ DOMAIN bucket \subseteq DOMAIN bucket' /\ now' = now
      BY <2>1, UploadKeeps DEF Inv, DownloadInv, DownloadOK
    <3>2. DownloadInv'
      BY <2>1, <3>1, DownloadStays DEF Inv
    <3>3. spent' \in 0 .. MaxEvents
      BY <2>1, SpentKeeps DEF Inv, Next
    <3>. QED  BY <3>1, <3>2, <3>3 DEF Inv
  <2>2. CASE DownloadNext /\ UNCHANGED uploadVars
    <3>1. DownloadInv' /\ UNCHANGED <<now, bucket>>
      BY <2>2, DownloadKeeps DEF Inv
    <3>2. UploadInv'
      BY <2>2, <3>1 DEF Inv, uploadVars, UploadInv, UploadType, FilesInv, SelectInv, Held,
            BodyInv, FlyingInv
    <3>3. DoneIsStored'
      BY <2>2, <3>1 DEF Inv, uploadVars, DoneIsStored, KeysOf
    <3>4. spent' \in 0 .. MaxEvents
      BY <2>2, SpentKeeps DEF Inv, Next
    <3>. QED  BY <3>1, <3>2, <3>3, <3>4 DEF Inv
  <2>3. CASE Clock
    <3>1. spent' \in 0 .. MaxEvents
      BY <2>3, SpentKeeps DEF Inv, Next
    <3>. QED  BY <2>3, <3>1, ClockKeeps DEF Inv
  <2>4. CASE UNCHANGED vars
    <3>. USE <2>4 DEF vars, uploadVars, downloadVars
    <3>1. UploadInv' /\ DoneIsStored'
      BY DEF Inv, UploadInv, UploadType, FilesInv, SelectInv, Held, BodyInv, FlyingInv,
            DoneIsStored, KeysOf
    <3>2. BucketOK' /\ Covered' /\ DOMAIN bucket \subseteq DOMAIN bucket'
      BY DEF Inv, DownloadInv, DownloadOK, BucketOK, Covered
    <3>3. DownloadInv'
      BY <3>2, DownloadStays DEF Inv
    <3>. QED  BY <3>1, <3>3 DEF Inv
  <2>. QED  BY <2>1, <2>2, <2>3, <2>4 DEF Next
<1>. QED  BY <1>1, <1>2, PTL DEF Spec

\* Types, of the jobs, the bucket, and of everything that is on its way to it.
THEOREM TypeCorrect == Spec => []TypeOK
<1>1. Inv => TypeOK
  BY DEF Inv, UploadInv, DownloadInv, DownloadOK, BucketOK, TypeOK
<1>. QED  BY <1>1, Inductive, PTL

\* Nothing in the bucket is older than its key.
THEOREM ObjectsCover == Spec => []ObjectCoversItsPad
<1>1. Inv => ObjectCoversItsPad
  <2>. SUFFICES ASSUME Inv, NEW k \in DOMAIN bucket PROVE k.pad >= Pad(bucket[k].time)
    BY DEF ObjectCoversItsPad
  <2>1. Pad(bucket[k].time) <= k.pad /\ bucket[k].time \in Time /\ k \in Key
    BY DEF Inv, DownloadInv, DownloadOK, Covered, BucketOK, Body
  <2>2. Pad(bucket[k].time) \in Int /\ k.pad \in Int
    BY <2>1, PadIs, BucketAssumption DEF Key
  <2>. QED  BY <2>1, <2>2
<1>. QED  BY <1>1, Inductive, PTL

\* What a pass has dealt with is stored.
THEOREM DoneStored == Spec => []DoneIsStored
<1>1. Inv => DoneIsStored
  BY DEF Inv
<1>. QED  BY <1>1, Inductive, PTL

\* A download is all of its object, is not taken too soon, and what the bucket
\* listed is on disk: for any interleaving with the uploads.
THEOREM DownloadsWhole == Spec => []PartialNeverLooksComplete
<1>1. Inv => PartialNeverLooksComplete
  BY DEF Inv, DownloadInv
<1>. QED  BY <1>1, Inductive, PTL

\* Two downloads of an entry are min_interval apart.
THEOREM IntervalsKept == Spec => []MinIntervalKept
<1>1. Inv => MinIntervalKept
  BY DEF Inv, DownloadInv
<1>. QED  BY <1>1, Inductive, PTL

\* An entry gone through without an error has what the bucket listed.
THEOREM ServedStored == Spec => []ServedIsOnDisk
<1>1. Inv => ServedIsOnDisk
  BY DEF Inv, DownloadInv
<1>. QED  BY <1>1, Inductive, PTL

(***************************************************************************)
(* The archive is implemented.                                             *)
(***************************************************************************)

\* Every download is of an object that the bucket holds.
ListedInv == \A f \in dest : ObjectOf(f) \in DOMAIN bucket

\* The object in hand is one of the entry's source, that is not here, and that is
\* not older than those that are.
ChosenInv ==
    dl.pc \in {"get", "create", "copy", "rename"} =>
        /\ dl.object.label = Source[Min(dl.todo)]
        /\ \A f \in dest : f.key.label = Min(dl.todo) =>
               dl.object.pad <= f.key.pad /\ f.key # DestKey(Min(dl.todo), dl.object)

OrderInv == ListedInv /\ ChosenInv

\* An upload adds at most one object.
LEMMA UploadStores ==
    ASSUME BucketAssumption, EntryAssumption, UploadInv, UploadNext
    PROVE  \/ UNCHANGED bucket
           \/ \E k \in Key : DOMAIN bucket' = DOMAIN bucket \cup {k}
<1>1. ASSUME NEW k \in Key, NEW body, bucket' = WithObject(k, body)
      PROVE  DOMAIN bucket' = DOMAIN bucket \cup {k}
  BY <1>1 DEF WithObject
<1>2. CASE StartUpload \/ CancelUpload \/ CrashUpload
  BY <1>2 DEF StartUpload, CancelUpload, CrashUpload, OnlyUp
<1>3. CASE Land
  <2>1. PICK o \in flying : bucket' = WithObject(o.key, o.body)
    BY <1>3 DEF Land
  <2>2. o.key \in Key
    BY DEF UploadInv, UploadType
  <2>. QED  BY <1>1, <2>1, <2>2
<1>4. ASSUME NEW l \in Labels, Produce(l) \/ Producer(l)
      PROVE  UNCHANGED bucket
  BY <1>4 DEF Produce, Replace, Stage, Finish, Prune, Producer, OpenPlain, SendBody, BreakPipe,
        OnlyUp
<1>5. ASSUME NEW l \in Labels, Put(l)
      PROVE  \E k \in Key : DOMAIN bucket' = DOMAIN bucket \cup {k}
  <2>1. bucket' = WithObject(KeyOf(l, up.file), up.body) /\ Sent(l)
    BY <1>5 DEF Put
  <2>. QED  BY <1>1, <2>1, SentCovers
<1>6. ASSUME NEW l \in Labels, UploadEntry(l), ~Put(l)
      PROVE  UNCHANGED bucket
  BY <1>6 DEF UploadEntry, SkipUpload, Select, Existing, Missing, FailHead, Measure, FailMeasure,
        Open, FailOpen, FailPut, CloseReader, Join, OnlyUp
<1>. QED  BY <1>2, <1>3, <1>4, <1>5, <1>6 DEF UploadNext, UploadStep

\* The object of a download.
LEMMA ObjectIs ==
    ASSUME NEW f \in Download
    PROVE  /\ ObjectOf(f) = [label |-> Source[f.key.label], pad |-> f.key.pad, name |-> f.key.name]
           /\ ObjectOf(f).label = Source[f.key.label]
           /\ ObjectOf(f).pad = f.key.pad /\ ObjectOf(f).name = f.key.name
           /\ f.key = [label |-> f.key.label, pad |-> f.key.pad, name |-> f.key.name]
<1>1. f.key \in Key
  BY DEF Download
<1>. QED  BY <1>1 DEF ObjectOf, Key

\* What the bucket gains takes nothing away.
LEMMA OrderStays ==
    ASSUME OrderInv, UNCHANGED <<dest, dl>>, DOMAIN bucket \subseteq DOMAIN bucket'
    PROVE  OrderInv'
BY DEF OrderInv, ListedInv, ChosenInv

\* A download of a newer object than those that the entry has.
NewerArrives(l) ==
    \E f \in Download :
        /\ f.key.label = l /\ f \notin dest /\ dest' = dest \cup {f}
        /\ ObjectOf(f) \in DOMAIN bucket /\ ObjectOf(f).label = Source[l]
        /\ \A g \in dest : g.key.label = l =>
               f.key.pad <= g.key.pad /\ ObjectOf(f) # ObjectOf(g)

\* The listing chooses the object: the bucket holds those of all downloads, and
\* the first key has the least pad.
LEMMA ListChooses ==
    ASSUME BucketAssumption, DownloadAssumption, DownloadOK, OrderInv, NEW l \in Labels, List(l)
    PROVE  OrderInv' /\ UNCHANGED dest
<1>. DEFINE key == FirstKey(Source[l])
<1>1. l = Min(dl.todo) /\ dl.todo # {} /\ UNCHANGED <<bucket, dest>> /\ KeysOf(Source[l]) # {}
  BY DEF List, DownloadAt, Downloading
<1>2. key \in KeysOf(Source[l]) /\ \A k \in KeysOf(Source[l]) : ~Precedes(k, key)
  BY <1>1, FirstIsListed DEF DownloadOK, BucketOK
<1>3. key \in DOMAIN bucket /\ key \in Key /\ key.label = Source[l]
  BY <1>2 DEF KeysOf, DownloadOK, BucketOK
<1>4. ListedInv'
  BY <1>1 DEF OrderInv, ListedInv
<1>5. CASE FileAt(dest, DestKey(l, key)) # {}
  <2>1. LeaveDownload(l)
    BY <1>5 DEF List
  <2>2. dl'.pc \in {"idle", "next"}
    BY <2>1, Leaving DEF DownloadOK
  <2>. QED  BY <1>1, <1>4, <2>2 DEF OrderInv, ChosenInv
<1>6. CASE FileAt(dest, DestKey(l, key)) = {}
  <2>1. dl' = [dl EXCEPT !.pc = "get", !.object = key, !.first = key.pad]
    BY <1>6 DEF List
  <2>. HIDE DEF key
  <2>2. dl'.object = key /\ dl'.todo = dl.todo
    BY <2>1 DEF DownloadOK, DownloadType, DownloadPass
  <2>3. ASSUME NEW f \in dest, f.key.label = l
        PROVE  key.pad <= f.key.pad /\ f.key # DestKey(l, key)
    <3>1. f \in Download
      BY DEF DownloadOK, DownloadType
    <3>2. ObjectOf(f) \in KeysOf(Source[l]) /\ ObjectOf(f).pad = f.key.pad
      BY <2>3, <3>1, ObjectIs DEF OrderInv, ListedInv, KeysOf
    <3>3. ~(f.key.pad < key.pad)
      BY <1>2, <3>2 DEF Precedes
    <3>4. f.key.pad \in Nat /\ key.pad \in Nat
      BY <1>3, <3>1, PadIs DEF Download, Key
    <3>. QED  BY <1>6, <3>3, <3>4 DEF FileAt
  <2>4. ChosenInv'
    BY <1>1, <1>3, <2>2, <2>3 DEF ChosenInv
  <2>. QED  BY <1>1, <1>4, <2>4 DEF OrderInv
<1>. QED  BY <1>5, <1>6

\* The rename brings the object that was chosen.
LEMMA RenameBrings ==
    ASSUME BucketAssumption, DownloadOK, OrderInv, NEW l \in Labels, Rename(l)
    PROVE  OrderInv' /\ NewerArrives(l)
<1>1. dl.pc = "rename" /\ l = Min(dl.todo) /\ UNCHANGED bucket
      /\ dest' = (dest \ FileAt(dest, DestKey(l, dl.object))) \cup Fetched
  BY DEF Rename, DownloadAt, Downloading, Fetched
<1>2. dl'.pc \in {"idle", "next"}
  BY RenameStep
<1>3. dl.object \in DOMAIN bucket /\ dl.object \in Key /\ dl.object.label = Source[l]
      /\ \A f \in dest : f.key.label = l =>
             dl.object.pad <= f.key.pad /\ f.key # DestKey(l, dl.object)
  BY <1>1 DEF DownloadOK, DownloadType, FetchInv, OrderInv, ChosenInv
<1>4. PICK f \in Fetched : TRUE
  BY <1>1 DEF DownloadOK, FetchInv
<1>5. f \in Download /\ f.key = DestKey(l, dl.object) /\ Fetched = {f}
  BY <1>1, <1>4 DEF Fetched, FileAt, DownloadOK, DownloadType
<1>6. f.key.label = l /\ f.key.pad = dl.object.pad /\ f.key.name = dl.object.name
  BY <1>5 DEF DestKey, ObjectKey
<1>7. ObjectOf(f) = dl.object
  BY <1>3, <1>5, <1>6, ObjectIs DEF Key
<1>8. FileAt(dest, DestKey(l, dl.object)) = {}
  BY <1>3, <1>5, <1>6 DEF FileAt
<1>9. f \notin dest /\ dest' = dest \cup {f}
  BY <1>1, <1>3, <1>5, <1>6, <1>8
<1>10. ASSUME NEW g \in dest, g.key.label = l
       PROVE  f.key.pad <= g.key.pad /\ ObjectOf(f) # ObjectOf(g)
  <2>1. g \in Download /\ dl.object.pad <= g.key.pad /\ g.key # f.key
    BY <1>3, <1>5, <1>10 DEF DownloadOK, DownloadType
  <2>. QED  BY <1>5, <1>6, <1>10, <2>1, ObjectIs
<1>11. OrderInv'
  BY <1>1, <1>2, <1>3, <1>7, <1>9 DEF OrderInv, ListedInv, ChosenInv
<1>. QED  BY <1>3, <1>5, <1>6, <1>7, <1>9, <1>10, <1>11 DEF NewerArrives

\* A step of an entry.
LEMMA EntryOrders ==
    ASSUME BucketAssumption, DownloadAssumption, DownloadOK, OrderInv, NEW l \in Labels,
           DownloadEntry(l)
    PROVE  OrderInv' /\ (UNCHANGED dest \/ NewerArrives(l))
<1>1. ASSUME UNCHANGED <<bucket, dest>>, dl'.pc \in {"idle", "next", "list"}
      PROVE  OrderInv'
  BY <1>1 DEF OrderInv, ListedInv, ChosenInv
<1>2. ASSUME LeaveDownload(l)
      PROVE  dl'.pc \in {"idle", "next"}
  BY <1>2, Leaving DEF DownloadOK
<1>3. CASE SkipDownload(l) \/ NotFound(l) \/ FailList(l) \/ FailGet(l) \/ FailCreate(l)
           \/ FailCopy(l) \/ FailRename(l)
  <2>1. UNCHANGED <<bucket, dest>> /\ LeaveDownload(l)
    BY <1>3 DEF SkipDownload, NotFound, FailList, FailGet, FailCreate, FailCopy, FailRename, OnlyDl
  <2>. QED  BY <1>1, <1>2, <2>1
<1>4. CASE Attempt(l)
  <2>1. UNCHANGED <<bucket, dest>> /\ dl'.pc = "list"
    BY <1>4 DEF Attempt, OnlyDl, DownloadOK, DownloadType, DownloadPass
  <2>. QED  BY <1>1, <2>1
<1>5. CASE List(l)
  BY <1>5, ListChooses
<1>6. CASE Get(l) \/ Create(l) \/ Copy(l)
  <2>1. UNCHANGED <<bucket, dest>> /\ dl.pc \in {"get", "create", "copy"}
    BY <1>6 DEF Get, Create, Copy, DownloadAt, OnlyDl
  <2>2. dl'.object = dl.object /\ dl'.todo = dl.todo
    BY <1>6 DEF Get, Create, Copy, DownloadOK, DownloadType, DownloadPass
  <2>. QED  BY <2>1, <2>2 DEF OrderInv, ListedInv, ChosenInv
<1>7. CASE Rename(l)
  BY <1>7, RenameBrings
<1>. QED  BY <1>3, <1>4, <1>5, <1>6, <1>7 DEF DownloadEntry

\* An arrival is a pull of the abstract archive.
LEMMA ArrivalPulls ==
    ASSUME BucketAssumption, DownloadOK, NEW l \in Labels, NewerArrives(l), UNCHANGED bucket
    PROVE  \E o \in Key : Store!Pull(l, o)
<1>1. PICK f \in Download :
        /\ f.key.label = l /\ f \notin dest /\ dest' = dest \cup {f}
        /\ ObjectOf(f) \in DOMAIN bucket /\ ObjectOf(f).label = Source[l]
        /\ \A g \in dest : g.key.label = l =>
               f.key.pad <= g.key.pad /\ ObjectOf(f) # ObjectOf(g)
  BY DEF NewerArrives
<1>. DEFINE o == ObjectOf(f)
            Of(m) == {ObjectOf(g) : g \in {x \in dest : x.key.label = m}}
            OfNext(m) == {ObjectOf(g) : g \in {x \in dest' : x.key.label = m}}
<1>2. o \in Key
  BY <1>1 DEF DownloadOK, BucketOK
<1>3. Pulled = [m \in Labels |-> Of(m)] /\ Pulled' = [m \in Labels |-> OfNext(m)]
  BY DEF Pulled, ObjectOf
<1>4. o \in DOMAIN bucket \cap Offers[l]
  BY <1>1, <1>2 DEF Offers
<1>5. o \notin Pulled[l]
  BY <1>1, <1>3
<1>6. ASSUME NEW p \in Pulled[l]
      PROVE  TimeOf(p) <= TimeOf(o)
  <2>1. PICK g \in dest : g.key.label = l /\ p = ObjectOf(g)
    BY <1>3
  <2>2. g \in Download /\ f.key.pad <= g.key.pad
    BY <1>1, <2>1 DEF DownloadOK, DownloadType
  <2>3. p.pad = g.key.pad /\ o.pad = f.key.pad
    BY <2>1, <2>2, ObjectIs
  <2>4. g.key.pad \in Nat /\ f.key.pad \in Nat /\ MaxTime \in Nat
    BY <2>2, PadIs DEF Download, Key, BucketAssumption
  <2>. QED  BY <2>2, <2>3, <2>4 DEF TimeOf
<1>7. Pulled' = [Pulled EXCEPT ![l] = @ \cup {o}]
  <2>1. ASSUME NEW m \in Labels
        PROVE  OfNext(m) = IF m = l THEN Of(l) \cup {o} ELSE Of(m)
    BY <1>1
  <2>. HIDE DEF o, Of, OfNext
  <2>. QED  BY <1>3, <2>1
<1>. HIDE DEF o
<1>. QED  BY <1>2, <1>4, <1>5, <1>6, <1>7 DEF Store!Pull

\* A step of the archive is one of the abstract archive, or none.
LEMMA ArchiveStep ==
    ASSUME BucketAssumption, EntryAssumption, DownloadAssumption, Inv, OrderInv, [Next]_vars
    PROVE  OrderInv' /\ [Store!Next]_(Store!vars)
<1>1. ASSUME UNCHANGED dest
      PROVE  Pulled' = Pulled
  BY <1>1 DEF Pulled, ObjectOf
<1>2. CASE UploadNext /\ UNCHANGED downloadVars
  <2>1. UNCHANGED <<dest, dl>> /\ DOMAIN bucket \subseteq DOMAIN bucket'
    BY <1>2, UploadKeeps DEF Inv, DownloadInv, DownloadOK, downloadVars
  <2>2. OrderInv'
    BY <2>1, OrderStays
  <2>3. UNCHANGED bucket \/ \E k \in Key : DOMAIN bucket' = DOMAIN bucket \cup {k}
    BY <1>2, UploadStores DEF Inv
  <2>. QED  BY <1>1, <2>1, <2>2, <2>3 DEF Store!Next, Store!Store, Store!vars
<1>3. CASE DownloadNext /\ UNCHANGED uploadVars
  <2>1. CASE StartDownload \/ CancelDownload \/ CrashDownload
    <3>1. UNCHANGED <<bucket, dest>>
      BY <2>1 DEF StartDownload, CancelDownload, CrashDownload, OnlyDl
    <3>2. dl'.pc \in {"idle", "next"}
      <4>1. CASE StartDownload
        <5>1. dl' = [NoDownload EXCEPT !.pc = "next", !.todo = Labels]
          BY <4>1 DEF StartDownload
        <5>. QED  BY <5>1 DEF NoDownload
      <4>2. CASE CancelDownload \/ CrashDownload
        BY <4>2 DEF CancelDownload, CrashDownload, NoDownload
      <4>. QED  BY <2>1, <4>1, <4>2
    <3>3. OrderInv'
      BY <3>1, <3>2 DEF OrderInv, ListedInv, ChosenInv
    <3>. QED  BY <1>1, <3>1, <3>3 DEF Store!vars
  <2>2. CASE DownloadStep
    <3>1. PICK l \in Labels : DownloadEntry(l)
      BY <2>2 DEF DownloadStep
    <3>2. UNCHANGED bucket
      BY <1>3, DownloadKeeps DEF Inv
    <3>3. OrderInv' /\ (UNCHANGED dest \/ NewerArrives(l))
      BY <3>1, EntryOrders DEF Inv, DownloadInv
    <3>4. CASE UNCHANGED dest
      BY <1>1, <3>2, <3>3, <3>4 DEF Store!vars
    <3>5. CASE NewerArrives(l)
      <4>1. \E o \in Key : Store!Pull(l, o)
        BY <3>2, <3>5, ArrivalPulls DEF Inv, DownloadInv
      <4>. QED  BY <3>3, <4>1 DEF Store!Next
    <3>. QED  BY <3>3, <3>4, <3>5
  <2>. QED  BY <1>3, <2>1, <2>2 DEF DownloadNext
<1>4. CASE Clock \/ UNCHANGED vars
  <2>1. UNCHANGED <<bucket, dest, dl>>
    BY <1>4 DEF Clock, vars, downloadVars
  <2>. QED  BY <1>1, <2>1, OrderStays DEF Store!vars
<1>. QED  BY <1>2, <1>3, <1>4 DEF Next

\* Whatever order the backups come to the bucket in, a machine takes each of them
\* at most once and never goes back in time.
THEOREM ArchiveRefinement == Spec => ImplementsArchive
<1>. USE BucketAssumption, EntryAssumption, DownloadAssumption
<1>1. Init => Store!Init /\ OrderInv
  <2>. SUFFICES ASSUME Init PROVE Store!Init /\ OrderInv
    OBVIOUS
  <2>1. DOMAIN bucket = {} /\ dest = {} /\ dl.pc = "idle"
    BY DEF Init, DownloadInit, NoDownload
  <2>2. Pulled = [m \in Labels |-> {}]
    BY <2>1 DEF Pulled
  <2>. QED  BY <2>1, <2>2 DEF Store!Init, OrderInv, ListedInv, ChosenInv
<1>2. Inv /\ OrderInv /\ [Next]_vars => OrderInv' /\ [Store!Next]_(Store!vars)
  BY ArchiveStep
<1>. QED  BY <1>1, <1>2, Inductive, PTL DEF Spec, ImplementsArchive, Store!Spec
=============================================================================
