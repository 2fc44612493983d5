--------------------------- MODULE DownloadProofs ----------------------------
(***************************************************************************)
(* The download job, for any labels, intervals and buckets: what a step of *)
(* an entry does to the downloads, the temp files and the history.  The    *)
(* archive and the recover command, which both run it, rest on this.       *)
(***************************************************************************)
EXTENDS S3Download, TLAPS, FiniteSetTheorems, WellFoundedInduction, NaturalsInduction

(***************************************************************************)
(* Least elements.                                                         *)
(***************************************************************************)

\* A set of numbers has a least one.
LEMMA Least ==
    ASSUME NEW S \in SUBSET Nat, S # {}
    PROVE  \E y \in S : \A z \in S : y <= z
<1> DEFINE R == OpToRel(<, Nat)
<1>1. \A x, y \in Nat : x < y => <<x, y>> \in R
  BY DEF OpToRel
<1>2. IsWellFoundedOn(R, Nat)
  BY NatLessThanWellFounded
<1>3. PICK y \in S : \A z \in S : ~(<<z, y>> \in R)
  <2>. HIDE DEF R
  <2>. QED  BY <1>2, WFMin
<1>4. \A z \in S : y <= z
  <2>. HIDE DEF R
  <2>. SUFFICES ASSUME NEW z \in S, z < y PROVE FALSE
    OBVIOUS
  <2>1. z \in Nat /\ y \in Nat
    OBVIOUS
  <2>. QED  BY <1>1, <1>3, <2>1
<1>. QED  BY <1>4

\* The entry in hand is one of those that are left.
LEMMA InHand ==
    ASSUME BucketAssumption, NEW S \in SUBSET Labels, S # {}
    PROVE  Min(S) \in S /\ Min(S) \in Labels
<1>1. S \in SUBSET Nat
  BY DEF Labels
<1>2. \E x \in S : \A y \in S : x <= y
  BY <1>1, Least
<1>. QED  BY <1>2 DEF Min

\* The pads count down the times.
LEMMA PadIs ==
    ASSUME BucketAssumption
    PROVE  /\ \A t \in Time : t \in Int /\ Pad(t) \in Int /\ Pad(t) \in {Pad(u) : u \in Time}
           /\ \A p \in {Pad(u) : u \in Time} : p \in Nat
           /\ \A t, u \in Time : t <= u <=> Pad(u) <= Pad(t)
<1>1. \A t \in Time : t \in Int /\ 0 <= t /\ t <= MaxTime /\ MaxTime \in Int
  BY DEF BucketAssumption, Time
<1>2. \A t \in Time : Pad(t) \in Nat
  BY <1>1 DEF Pad
<1>3. \A t, u \in Time : t <= u <=> Pad(u) <= Pad(t)
  BY <1>1 DEF Pad
<1>. QED  BY <1>1, <1>2, <1>3

\* Where an extension comes in the order of names.
LEMMA ExtRankIs ==
    ASSUME NEW e \in Exts
    PROVE  ExtRank[e] \in Nat
BY DEF ExtRank, Exts

\* The first key of a listing is one of the label.
LEMMA FirstIsListed ==
    ASSUME BucketAssumption, NEW l, KeysOf(l) # {}, DOMAIN bucket \subseteq Key
    PROVE  FirstKey(l) \in KeysOf(l) /\ \A j \in KeysOf(l) : ~Precedes(j, FirstKey(l))
<1>. DEFINE S == KeysOf(l)
<1>1. \A k \in S : k \in Key /\ k.pad \in Nat /\ k.name.base \in Nat /\ ExtRank[k.name.ext] \in Nat
  <2>. SUFFICES ASSUME NEW k \in S
       PROVE  k \in Key /\ k.pad \in Nat /\ k.name.base \in Nat /\ ExtRank[k.name.ext] \in Nat
    OBVIOUS
  <2>1. k \in Key
    BY DEF KeysOf
  <2>2. k.pad \in Nat
    BY <2>1, PadIs DEF Key
  <2>3. k.name.base \in 0 .. MaxWrites /\ k.name.ext \in Exts
    BY <2>1 DEF Key, Name
  <2>. QED  BY <2>1, <2>2, <2>3, ExtRankIs
<1>. HIDE DEF S
<1>2. PICK a \in S : \A k \in S : a.pad <= k.pad
  <2>. DEFINE T == {k.pad : k \in S}
  <2>1. T \in SUBSET Nat /\ T # {}
    BY <1>1 DEF S
  <2>2. PICK p \in T : \A z \in T : p <= z
    BY <2>1, Least
  <2>. QED  BY <2>2
<1>. DEFINE A == {k \in S : k.pad = a.pad}
<1>3. PICK b \in A : \A k \in A : b.name.base <= k.name.base
  <2>. DEFINE T == {k.name.base : k \in A}
  <2>1. T \in SUBSET Nat /\ T # {}
    BY <1>1, <1>2
  <2>2. PICK p \in T : \A z \in T : p <= z
    BY <2>1, Least
  <2>. QED  BY <2>2
<1>. DEFINE B == {k \in A : k.name.base = b.name.base}
<1>4. PICK c \in B : \A k \in B : ExtRank[c.name.ext] <= ExtRank[k.name.ext]
  <2>. DEFINE T == {ExtRank[k.name.ext] : k \in B}
  <2>1. T \in SUBSET Nat /\ T # {}
    BY <1>1, <1>3
  <2>2. PICK p \in T : \A z \in T : p <= z
    BY <2>1, Least
  <2>. QED  BY <2>2
<1>5. c \in S /\ c.pad = a.pad /\ c.name.base = b.name.base
  BY <1>4
<1>6. ASSUME NEW j \in S, Precedes(j, c)
      PROVE  FALSE
  <2>1. j.pad \in Nat /\ j.name.base \in Nat /\ ExtRank[j.name.ext] \in Nat
        /\ c.pad \in Nat /\ c.name.base \in Nat /\ ExtRank[c.name.ext] \in Nat
    BY <1>1, <1>5
  <2>2. j.pad = c.pad
    BY <1>2, <1>5, <1>6, <2>1 DEF Precedes
  <2>3. j \in A /\ c.name.base <= j.name.base
    BY <1>3, <1>5, <2>2
  <2>4. j.name.base = c.name.base
    BY <1>6, <2>1, <2>2, <2>3 DEF Precedes
  <2>5. ExtRank[c.name.ext] <= ExtRank[j.name.ext]
    BY <1>4, <1>5, <2>3, <2>4
  <2>. QED  BY <1>6, <2>1, <2>2, <2>4, <2>5 DEF Precedes
<1>. QED  BY <1>5, <1>6 DEF FirstKey, S

(***************************************************************************)
(* The fetch of one object.                                                *)
(***************************************************************************)

BucketOK ==
    /\ now \in Time
    /\ DOMAIN bucket \subseteq Key
    /\ \A k \in DOMAIN bucket : bucket[k] \in Body

\* The object covers its pad: it is what the file was at that time, or later.
Covered == \A k \in DOMAIN bucket : Pad(bucket[k].time) <= k.pad

\* The temp file of the fetch in hand.
Fetched == FileAt(temp, DestKey(Min(dl.todo), dl.object))

\* The listed object is in the bucket; what was got of it covers its pad; and
\* the file about to be renamed is there, and is all of it.
FetchInv ==
    /\ dl.pc \in {"get", "create", "copy", "rename"} =>
           dl.object \in DOMAIN bucket /\ dl.first = dl.object.pad
    /\ dl.pc \in {"create", "copy", "rename"} =>
           dl.body \in Body /\ Pad(dl.body.time) <= dl.object.pad
    /\ dl.pc = "rename" =>
           Fetched # {} /\ \A f \in Fetched : ~f.cut /\ f.body = dl.body

DownloadOK == BucketOK /\ DownloadType /\ Covered /\ FetchInv

\* What a step does to the downloads and to held: nothing, or it finds that the
\* first object of an entry is here, or a fetched file takes its name.
FoundHere(l) ==
    /\ dest' = dest
    /\ \E f \in dest : f.key.label = l /\ held' = [held EXCEPT ![l] = f.key.pad]

FileArrives(l) ==
    \E f \in Fetched :
        /\ ~f.cut /\ f.key.label = l /\ Pad(f.body.time) <= f.key.pad
        /\ dest' = (dest \ FileAt(dest, f.key)) \cup {f}
        /\ held' = [held EXCEPT ![l] = f.key.pad]

\* Leaving an entry.
LEMMA Leaving ==
    ASSUME DownloadType, NEW l \in Labels, LeaveDownload(l)
    PROVE  /\ dl' \in DownloadPass /\ dl'.pc \in {"idle", "next"}
           /\ dl'.todo = dl.todo \ {l}
<1>1. dl.todo \in SUBSET Labels
  BY DEF DownloadType, DownloadPass
<1>2. CASE dl.todo = {l}
  <2>1. dl' = NoDownload
    BY <1>2 DEF LeaveDownload
  <2>. QED  BY <1>2, <2>1 DEF NoDownload, DownloadPass
<1>3. CASE dl.todo # {l}
  <2>1. dl' = [NoDownload EXCEPT !.pc = "next", !.todo = dl.todo \ {l}]
    BY <1>3 DEF LeaveDownload
  <2>. QED  BY <1>1, <2>1 DEF NoDownload, DownloadPass
<1>. QED  BY <1>2, <1>3

\* The steps that only move on.
LEMMA QuietStep ==
    ASSUME BucketAssumption, DownloadOK, NEW l \in Labels,
           SkipDownload(l) \/ Attempt(l) \/ NotFound(l) \/ FailList(l) \/ FailGet(l)
               \/ FailCreate(l)
    PROVE  (DownloadType /\ FetchInv)' /\ UNCHANGED <<now, bucket, dest, temp, held>>
<1>. USE DEF DownloadOK, OnlyDl
<1>1. UNCHANGED <<now, bucket, dest, temp, held>>
  BY DEF SkipDownload, Attempt, NotFound, FailList, FailGet, FailCreate
<1>2. dl' \in DownloadPass /\ dl'.pc \in {"idle", "next", "list"}
  <2>1. CASE Attempt(l)
    BY <2>1 DEF Attempt, DownloadAt, DownloadType, DownloadPass
  <2>2. CASE LeaveDownload(l)
    BY <2>2, Leaving
  <2>. QED  BY <2>1, <2>2 DEF SkipDownload, NotFound, FailList, FailGet, FailCreate
<1>. QED  BY <1>1, <1>2 DEF DownloadType, FetchInv

\* The listing: the first object is here, or is the one to get.
LEMMA ListStep ==
    ASSUME BucketAssumption, DownloadAssumption, DownloadOK, NEW l \in Labels, List(l)
    PROVE  /\ (DownloadType /\ FetchInv)' /\ UNCHANGED <<now, bucket, temp>>
           /\ \/ FoundHere(l) /\ dl'.pc \in {"idle", "next"}
              \/ /\ UNCHANGED <<dest, held>>
                 /\ dl.pc = "list" /\ dl'.pc = "get" /\ dl'.todo = dl.todo
<1>. DEFINE key == FirstKey(Source[l])
<1>1. key \in DOMAIN bucket /\ key \in Key
  BY FirstIsListed DEF List, DownloadOK, BucketOK, KeysOf
<1>2. key.pad \in {Pad(t) : t \in Time}
  BY <1>1 DEF Key
<1>3. UNCHANGED <<now, bucket, temp, dest>>
  BY DEF List
<1>4. DownloadAt(l, "list") /\ dl.todo # {}
  BY DEF List, DownloadAt, Downloading
<1>5. CASE FileAt(dest, DestKey(l, key)) # {}
  <2>1. LeaveDownload(l) /\ held' = [held EXCEPT ![l] = key.pad]
    BY <1>5 DEF List
  <2>2. PICK f \in dest : f.key = DestKey(l, key)
    BY <1>5 DEF FileAt
  <2>3. f.key.label = l /\ f.key.pad = key.pad
    BY <2>2 DEF DestKey, ObjectKey
  <2>4. dl' \in DownloadPass /\ dl'.pc \in {"idle", "next"}
    BY <2>1, Leaving DEF DownloadOK
  <2>5. held' \in [Labels -> {Pad(t) : t \in Time} \cup {Absent}]
    BY <1>2, <2>1 DEF DownloadOK, DownloadType
  <2>6. DownloadType' /\ FetchInv'
    BY <1>3, <2>4, <2>5 DEF DownloadOK, DownloadType, FetchInv
  <2>. QED  BY <1>3, <2>1, <2>2, <2>3, <2>4, <2>6 DEF FoundHere
<1>6. CASE FileAt(dest, DestKey(l, key)) = {}
  <2>. HIDE DEF key
  <2>1. dl' = [dl EXCEPT !.pc = "get", !.object = key, !.first = key.pad] /\ held' = held
    BY <1>6 DEF List, key
  <2>2. dl \in DownloadPass
    BY DEF DownloadOK, DownloadType
  <2>3. dl' \in DownloadPass /\ dl'.pc = "get" /\ dl'.object = key /\ dl'.first = key.pad
        /\ dl'.todo = dl.todo
    BY <1>1, <1>2, <2>1, <2>2 DEF DownloadPass
  <2>4. DownloadType' /\ FetchInv'
    BY <1>1, <1>3, <1>4, <2>1, <2>3 DEF DownloadOK, DownloadType, FetchInv
  <2>. QED  BY <1>3, <1>4, <2>1, <2>3, <2>4 DEF DownloadAt
<1>. QED  BY <1>5, <1>6

\* The object is got.
LEMMA GetStep ==
    ASSUME BucketAssumption, DownloadOK, NEW l \in Labels, Get(l)
    PROVE  /\ (DownloadType /\ FetchInv)' /\ UNCHANGED <<now, bucket, dest, temp, held>>
           /\ dl.pc = "get" /\ dl'.pc = "create" /\ dl'.todo = dl.todo
<1>1. dl' = [dl EXCEPT !.pc = "create", !.body = bucket[dl.object]] /\ dl.pc = "get"
      /\ UNCHANGED <<now, bucket, dest, temp, held>> /\ dl.todo # {}
  BY DEF Get, DownloadAt, Downloading, OnlyDl
<1>2. dl \in DownloadPass /\ dl.object \in DOMAIN bucket /\ dl.first = dl.object.pad
      /\ dl.object \in Key
  BY <1>1 DEF DownloadOK, DownloadType, FetchInv
<1>3. bucket[dl.object] \in Body /\ Pad(bucket[dl.object].time) <= dl.object.pad
  BY <1>2 DEF DownloadOK, BucketOK, Covered
<1>4. dl' \in DownloadPass /\ dl'.pc = "create" /\ dl'.body = bucket[dl.object]
      /\ dl'.object = dl.object /\ dl'.first = dl.first /\ dl'.todo = dl.todo
  BY <1>1, <1>2, <1>3 DEF DownloadPass
<1>. QED  BY <1>1, <1>2, <1>3, <1>4 DEF DownloadOK, DownloadType, FetchInv

\* The temp file is created, and then written to its end: it is the only one of
\* its name.
LEMMA TempStep ==
    ASSUME BucketAssumption, DownloadOK, NEW l \in Labels, Create(l) \/ Copy(l)
    PROVE  /\ (DownloadType /\ FetchInv)' /\ UNCHANGED <<now, bucket, dest, held>>
           /\ dl.pc \in {"create", "copy"} /\ dl'.todo = dl.todo
           /\ dl'.pc \in {"copy", "rename"}
           /\ dl'.pc = "rename" => \A f \in Fetched' : f.mtime = now
<1>. DEFINE cut == dl.pc = "create"
            f == TempFile(l, cut)
            key == DestKey(l, dl.object)
<1>1. dl.pc \in {"create", "copy"} /\ dl.todo # {} /\ l = Min(dl.todo)
      /\ UNCHANGED <<now, bucket, dest, held>>
      /\ temp' = WithoutTemp(l) \cup {f}
      /\ dl' = [dl EXCEPT !.pc = IF cut THEN "copy" ELSE "rename"]
  BY DEF Create, Copy, DownloadAt, Downloading
<1>2. dl \in DownloadPass /\ dl.object \in Key /\ dl.object \in DOMAIN bucket /\ dl.body \in Body
  BY <1>1 DEF DownloadOK, DownloadType, FetchInv
<1>3. key \in Key
  BY <1>2 DEF DestKey, ObjectKey, Key
<1>4. f \in Download /\ f.key = key /\ f.cut = cut /\ f.body = dl.body /\ f.mtime = now
  BY <1>2, <1>3 DEF TempFile, Download, DownloadOK, BucketOK
<1>5. dl' \in DownloadPass /\ dl'.pc = (IF cut THEN "copy" ELSE "rename")
      /\ dl'.object = dl.object /\ dl'.body = dl.body /\ dl'.first = dl.first
      /\ dl'.todo = dl.todo
  BY <1>1, <1>2 DEF DownloadPass
<1>6. temp' = (temp \ FileAt(temp, key)) \cup {f}
  BY <1>1 DEF WithoutTemp
<1>. HIDE DEF f, key
<1>7. FileAt(temp', key) = {f}
  BY <1>4, <1>6 DEF FileAt
<1>8. temp' \subseteq Download /\ \A g, h \in temp' : g.key = h.key => g = h
  BY <1>4, <1>6 DEF FileAt, DownloadOK, DownloadType
<1>9. Fetched' = {f}
  BY <1>1, <1>5, <1>7 DEF Fetched, FileAt, DestKey, key
<1>10. DownloadType'
  <2>1. dest' \subseteq Download /\ (\A g, h \in dest' : g.key = h.key => g = h)
        /\ held' \in [Labels -> {Pad(t) : t \in Time} \cup {Absent}]
    BY <1>1 DEF DownloadOK, DownloadType
  <2>2. dl' \in DownloadPass /\ dl'.todo # {} /\ dl'.object \in Key
    BY <1>1, <1>2, <1>5
  <2>. QED  BY <1>8, <2>1, <2>2 DEF DownloadType
<1>11. FetchInv'
  <2>1. dl'.object \in DOMAIN bucket' /\ dl'.first = dl'.object.pad
    BY <1>1, <1>2, <1>5 DEF DownloadOK, FetchInv
  <2>2. dl'.body \in Body /\ Pad(dl'.body.time) <= dl'.object.pad
    BY <1>1, <1>2, <1>5 DEF DownloadOK, FetchInv
  <2>3. dl'.pc = "rename" => ~f.cut
    BY <1>4, <1>5
  <2>4. Fetched' # {} /\ \A g \in Fetched' : g = f
    BY <1>9
  <2>. QED  BY <1>4, <1>5, <2>1, <2>2, <2>3, <2>4 DEF FetchInv
<1>. QED  BY <1>1, <1>4, <1>5, <1>9, <1>10, <1>11

\* A fetch that fails leaves at most its temp file.
LEMMA GiveUpStep ==
    ASSUME BucketAssumption, DownloadOK, NEW l \in Labels, FailCopy(l) \/ FailRename(l)
    PROVE  /\ (DownloadType /\ FetchInv)' /\ UNCHANGED <<now, bucket, dest, held>>
           /\ dl'.pc \in {"idle", "next"}
<1>1. LeaveDownload(l) /\ Tidy(l) /\ UNCHANGED <<now, bucket, dest, held>>
  BY DEF FailCopy, FailRename
<1>2. dl' \in DownloadPass /\ dl'.pc \in {"idle", "next"}
  BY <1>1, Leaving DEF DownloadOK
<1>3. temp' \subseteq temp
  BY <1>1 DEF Tidy, WithoutTemp
<1>. QED  BY <1>1, <1>2, <1>3 DEF DownloadOK, DownloadType, FetchInv

\* The rename.
LEMMA RenameStep ==
    ASSUME BucketAssumption, DownloadOK, NEW l \in Labels, Rename(l)
    PROVE  /\ (DownloadType /\ FetchInv)' /\ UNCHANGED <<now, bucket>>
           /\ FileArrives(l) /\ dl'.pc \in {"idle", "next"}
<1>. DEFINE key == DestKey(l, dl.object)
<1>1. dl.pc = "rename" /\ dl.todo # {} /\ l = Min(dl.todo) /\ LeaveDownload(l)
      /\ UNCHANGED <<now, bucket>>
      /\ dest' = (dest \ FileAt(dest, key)) \cup FileAt(temp, key)
      /\ temp' = temp \ FileAt(temp, key)
      /\ held' = [held EXCEPT ![l] = dl.first]
  BY DEF Rename, DownloadAt, Downloading, WithoutTemp
<1>2. dl.object \in Key /\ dl.first = dl.object.pad /\ Pad(dl.body.time) <= dl.object.pad
  BY <1>1 DEF DownloadOK, DownloadType, FetchInv
<1>3. key.label = l /\ key.pad = dl.object.pad
  BY DEF DestKey, ObjectKey
<1>4. Fetched = FileAt(temp, key)
  BY <1>1 DEF Fetched
<1>. HIDE DEF key
<1>5. PICK f \in Fetched : TRUE
  BY <1>1 DEF DownloadOK, FetchInv
<1>6. f \in temp /\ f.key = key /\ ~f.cut /\ f.body = dl.body
  BY <1>1, <1>4, <1>5 DEF DownloadOK, FetchInv, FileAt
<1>7. Fetched = {f}
  BY <1>4, <1>6 DEF DownloadOK, DownloadType, FileAt
<1>8. FileArrives(l)
  BY <1>1, <1>2, <1>3, <1>4, <1>5, <1>6, <1>7 DEF FileArrives
<1>9. dl' \in DownloadPass /\ dl'.pc \in {"idle", "next"}
  BY <1>1, Leaving DEF DownloadOK
<1>10. dest' \subseteq Download /\ \A g, h \in dest' : g.key = h.key => g = h
  BY <1>1, <1>4, <1>6, <1>7 DEF FileAt, DownloadOK, DownloadType
<1>11. held' \in [Labels -> {Pad(t) : t \in Time} \cup {Absent}]
  BY <1>1, <1>2 DEF DownloadOK, DownloadType, Key
<1>12. temp' \subseteq temp
  BY <1>1
<1>. QED  BY <1>1, <1>8, <1>9, <1>10, <1>11, <1>12 DEF DownloadOK, DownloadType, FetchInv

\* A step of an entry keeps what holds of the download job, and does one of three
\* things to the downloads.
LEMMA EntryKeeps ==
    ASSUME BucketAssumption, DownloadAssumption, DownloadOK, NEW l \in Labels, DownloadEntry(l)
    PROVE  /\ DownloadOK' /\ UNCHANGED <<now, bucket>>
           /\ FoundHere(l) \/ FileArrives(l) \/ UNCHANGED <<dest, held>>
<1>1. /\ (DownloadType /\ FetchInv)' /\ UNCHANGED <<now, bucket>>
      /\ FoundHere(l) \/ FileArrives(l) \/ UNCHANGED <<dest, held>>
  BY QuietStep, ListStep, GetStep, TempStep, GiveUpStep, RenameStep DEF DownloadEntry
<1>2. (BucketOK /\ Covered)'
  BY <1>1 DEF DownloadOK, BucketOK, Covered
<1>. QED  BY <1>1, <1>2 DEF DownloadOK

(***************************************************************************)
(* The intervals.                                                          *)
(***************************************************************************)

\* From the listing on, the downloads of the entry in hand are old enough, and
\* the file that is about to join them is that much younger.
OldEnough(l, t) == \A f \in dest : f.key.label = l => t - f.mtime >= Interval[l]

DueInv ==
    /\ dl.pc \in {"list", "get", "create", "copy", "rename"} =>
           dl.todo # {} /\ OldEnough(Min(dl.todo), now)
    /\ dl.pc = "rename" => \A t \in Fetched : OldEnough(Min(dl.todo), t.mtime)

\* A step of an entry keeps the downloads min_interval apart.
LEMMA EntryKeepsIntervals ==
    ASSUME BucketAssumption, DownloadAssumption, DownloadOK, DueInv, MinIntervalKept,
           NEW l \in Labels, DownloadEntry(l)
    PROVE  (DueInv /\ MinIntervalKept)'
<1>1. ASSUME UNCHANGED dest
      PROVE  MinIntervalKept'
  BY <1>1 DEF MinIntervalKept
<1>2. ASSUME dl'.pc \in {"idle", "next"}
      PROVE  DueInv'
  BY <1>2 DEF DueInv
<1>3. ASSUME UNCHANGED <<now, dest>>, dl.pc \in {"list", "get", "create", "copy", "rename"},
             dl'.todo = dl.todo, dl'.pc = "rename" => \A f \in Fetched' : f.mtime = now
      PROVE  DueInv'
  BY <1>3 DEF DueInv, OldEnough
<1>4. ASSUME LeaveDownload(l)
      PROVE  dl'.pc \in {"idle", "next"}
  BY <1>4, Leaving DEF DownloadOK
<1>5. CASE SkipDownload(l) \/ NotFound(l) \/ FailList(l) \/ FailGet(l) \/ FailCreate(l)
  <2>1. UNCHANGED dest /\ LeaveDownload(l)
    BY <1>5 DEF SkipDownload, NotFound, FailList, FailGet, FailCreate, OnlyDl
  <2>. QED  BY <1>1, <1>2, <1>4, <2>1
<1>6. CASE Attempt(l)
  <2>1. UNCHANGED <<now, dest>> /\ IsDue(l) /\ l = Min(dl.todo) /\ dl.todo # {}
        /\ dl' = [dl EXCEPT !.pc = "list"]
    BY <1>6 DEF Attempt, DownloadAt, Downloading, OnlyDl
  <2>2. dl'.pc = "list" /\ dl'.todo = dl.todo
    BY <2>1 DEF DownloadOK, DownloadType, DownloadPass
  <2>3. OldEnough(l, now)
    BY <2>1 DEF IsDue, Seen, OldEnough
  <2>4. DueInv'
    BY <2>1, <2>2, <2>3 DEF DueInv, OldEnough
  <2>. QED  BY <1>1, <2>1, <2>4
<1>7. CASE List(l)
  BY <1>1, <1>2, <1>3, <1>7, ListStep DEF FoundHere
<1>8. CASE Get(l)
  BY <1>1, <1>3, <1>8, GetStep
<1>9. CASE Create(l) \/ Copy(l)
  BY <1>1, <1>3, <1>9, TempStep
<1>10. CASE FailCopy(l) \/ FailRename(l)
  BY <1>1, <1>2, <1>10, GiveUpStep
<1>11. CASE Rename(l)
  <2>1. dl'.pc \in {"idle", "next"} /\ FileArrives(l)
    BY <1>11, RenameStep
  <2>2. PICK f \in Fetched : f.key.label = l /\ dest' = (dest \ FileAt(dest, f.key)) \cup {f}
    BY <2>1 DEF FileArrives
  <2>3. OldEnough(l, f.mtime)
    BY <1>11, <2>2 DEF DueInv, Rename, DownloadAt, Downloading
  <2>4. MinIntervalKept'
    BY <2>2, <2>3 DEF MinIntervalKept, OldEnough
  <2>. QED  BY <1>2, <2>1, <2>4
<1>. QED  BY <1>5, <1>6, <1>7, <1>8, <1>9, <1>10, <1>11 DEF DownloadEntry

(***************************************************************************)
(* The failures.                                                           *)
(***************************************************************************)

\* A step injects one failure, if any.
Counted == NoEvent \/ (spent < MaxEvents /\ spent' = spent + 1)

\* The count stays below its bound.
LEMMA CountedStays ==
    ASSUME BucketAssumption, spent \in 0 .. MaxEvents, Counted
    PROVE  spent' \in 0 .. MaxEvents
BY DEF Counted, NoEvent, BucketAssumption

\* One entry of a download pass.
LEMMA DownloadEntryCounts == \A l \in Labels : DownloadEntry(l) => Counted
<1>. SUFFICES ASSUME NEW l \in Labels, DownloadEntry(l) PROVE Counted
  OBVIOUS
<1>. USE DEF Counted, Inject
<1>1. CASE SkipDownload(l) \/ Attempt(l) \/ NotFound(l) \/ List(l)
  BY <1>1 DEF SkipDownload, Attempt, NotFound, List
<1>2. CASE Get(l) \/ Create(l) \/ Copy(l) \/ Rename(l)
  BY <1>2 DEF Get, Create, Copy, Rename
<1>3. CASE FailList(l) \/ FailGet(l) \/ FailCreate(l)
  BY <1>3 DEF FailList, FailGet, FailCreate
<1>4. CASE FailCopy(l) \/ FailRename(l)
  BY <1>4 DEF FailCopy, FailRename
<1>. QED  BY <1>1, <1>2, <1>3, <1>4 DEF DownloadEntry
=============================================================================
