---------------------------- MODULE RecoverProofs ----------------------------
(***************************************************************************)
(* The recover command, for any labels, any backups in the bucket, and any *)
(* number of failed, killed and repeated runs: what it installs is whole,  *)
(* is the newest that was listed, no backup that arrived is lost, and a    *)
(* run without an error succeeds.  The names of the files are enough to    *)
(* follow a run; what they hold only matters for the cut ones.             *)
(***************************************************************************)
EXTENDS Recover, DownloadProofs

Names == {f.key : f \in dest}

\* Where the command and its download pass stand, and what is still to be made.
CommandInv ==
    /\ spent \in 0 .. MaxEvents
    /\ app \in Download \cup {Absent} /\ run \in Run /\ untidy \in BOOLEAN
    /\ run.pc = "download" <=> dl.pc # "idle"
    /\ dl.pc = "idle" => dl = NoDownload
    /\ run.todo # {} => run.pc \in {"decrypt", "decompress"}
    /\ run.product # Absent => run.todo # {} /\ run.product = Product
    /\ \A k \in run.todo : /\ k \in Names /\ k.name.age = (run.pc = "decrypt")
                           /\ run.pc = "decompress" => k.name.ext = "gz"

\* A cut file is the one being written, or was left by a crash or a failed
\* removal.
WholeInv == \A f \in dest : f.cut => untidy \/ f.key = run.product

\* No name is that of a file in the making, and no file is from the future.
NamesInv ==
    /\ \A k \in DOMAIN bucket \cup Names : k.name.ext \in {"gz", "db"}
    /\ \A f \in dest \cup temp : f.mtime <= now

\* What is listed is of the entry in hand, and only an entry that the bucket
\* holds something of has files.
HeldInv ==
    /\ dl.pc \in {"get", "create", "copy", "rename"} => dl.object.label = Min(dl.todo)
    /\ \A k \in Names : held[k.label] # Absent
    /\ \A l \in Labels : held[l] # Absent => KeysOf(l) # {}

\* The database about to be moved is there, and is the first of its label.
PickInv ==
    run.pc = "move" =>
        /\ run.pick \in Names /\ run.pick.label \in AppLabels
        /\ \A k \in Names : k.label = run.pick.label /\ k.name.ext = "db" /\ ~k.name.age =>
               run.pick.pad <= k.pad

\* The backup of l that the bucket listed first is here: a database already, or
\* with the steps that make one of it still to come.
Ready(l) ==
    \E k \in Names :
        /\ k.label = l /\ k.pad = held[l]
        /\ k.name.age => run.pc = "download" \/ k \in run.todo
        /\ k.name.ext = "gz" => run.pc \in {"download", "decrypt"} \/ k \in run.todo

NewestInv ==
    run.clean /\ run.pc \notin {"idle", "done"} =>
        \A l \in Labels \ dl.todo : held[l] # Absent => Ready(l)

Inv ==
    /\ DownloadOK /\ CommandInv /\ WholeInv /\ NamesInv /\ HeldInv /\ PickInv /\ NewestInv
    /\ InstalledIsWhole

-----------------------------------------------------------------------------
(* Names.                                                                  *)

\* The first of several names, all encrypted or none.
LEMMA FirstIs ==
    ASSUME BucketAssumption, NEW S \in SUBSET Key, S # {},
           \A j, k \in S : j.name.age = k.name.age
    PROVE  /\ First(S) \in S
           /\ \A j \in S \ {First(S)} :
                  First(S).label < j.label
                      \/ (First(S).label = j.label /\ Precedes(First(S), j))
<1>1. \A k \in S : /\ k \in Key /\ k.label \in Nat /\ k.pad \in Nat /\ k.name.base \in Nat
                   /\ k.name.ext \in Exts /\ ExtRank[k.name.ext] \in Nat
  <2>. SUFFICES ASSUME NEW k \in S
       PROVE  /\ k \in Key /\ k.label \in Nat /\ k.pad \in Nat /\ k.name.base \in Nat
              /\ k.name.ext \in Exts /\ ExtRank[k.name.ext] \in Nat
    OBVIOUS
  <2>1. k.label \in Labels /\ k.name.base \in 0 .. MaxWrites /\ k.name.ext \in Exts
    BY DEF Key, Name
  <2>2. k.pad \in Nat
    BY PadIs DEF Key
  <2>. QED  BY <2>1, <2>2, ExtRankIs DEF Labels
<1>2. PICK o \in S : \A k \in S : o.label <= k.label
  <2>. DEFINE T == {k.label : k \in S}
  <2>1. T \in SUBSET Nat /\ T # {}
    BY <1>1
  <2>2. PICK p \in T : \A z \in T : p <= z
    BY <2>1, Least
  <2>. QED  BY <2>2
<1>. DEFINE O == {k \in S : k.label = o.label}
<1>3. PICK a \in O : \A k \in O : a.pad <= k.pad
  <2>. DEFINE T == {k.pad : k \in O}
  <2>1. T \in SUBSET Nat /\ T # {}
    BY <1>1, <1>2
  <2>2. PICK p \in T : \A z \in T : p <= z
    BY <2>1, Least
  <2>. QED  BY <2>2
<1>. DEFINE A == {k \in O : k.pad = a.pad}
<1>4. PICK b \in A : \A k \in A : b.name.base <= k.name.base
  <2>. DEFINE T == {k.name.base : k \in A}
  <2>1. T \in SUBSET Nat /\ T # {}
    BY <1>1, <1>3
  <2>2. PICK p \in T : \A z \in T : p <= z
    BY <2>1, Least
  <2>. QED  BY <2>2
<1>. DEFINE B == {k \in A : k.name.base = b.name.base}
<1>5. PICK c \in B : \A k \in B : ExtRank[c.name.ext] <= ExtRank[k.name.ext]
  <2>. DEFINE T == {ExtRank[k.name.ext] : k \in B}
  <2>1. T \in SUBSET Nat /\ T # {}
    BY <1>1, <1>4
  <2>2. PICK p \in T : \A z \in T : p <= z
    BY <2>1, Least
  <2>. QED  BY <2>2
<1>6. c \in S /\ c.label = o.label /\ c.pad = a.pad /\ c.name.base = b.name.base
  BY <1>5
<1>7. ASSUME NEW j \in S, j # c
      PROVE  c.label < j.label \/ (c.label = j.label /\ Precedes(c, j))
  <2>1. /\ j.label \in Nat /\ j.pad \in Nat /\ j.name.base \in Nat /\ ExtRank[j.name.ext] \in Nat
        /\ c.label \in Nat /\ c.pad \in Nat /\ c.name.base \in Nat /\ ExtRank[c.name.ext] \in Nat
    BY <1>1, <1>6
  <2>2. CASE j.label # c.label
    BY <1>2, <1>6, <2>1, <2>2
  <2>3. CASE j.label = c.label /\ j.pad # c.pad
    BY <1>3, <1>6, <2>1, <2>3 DEF Precedes
  <2>4. CASE j.label = c.label /\ j.pad = c.pad /\ j.name.base # c.name.base
    BY <1>4, <1>6, <2>1, <2>4 DEF Precedes
  <2>5. CASE j.label = c.label /\ j.pad = c.pad /\ j.name.base = c.name.base
    <3>1. ExtRank[c.name.ext] <= ExtRank[j.name.ext]
      BY <1>5, <1>6, <2>5
    <3>2. j.name.ext # c.name.ext
      <4>1. j.name.age = c.name.age
        BY <1>6
      <4>2. j \in Key /\ c \in Key
        BY <1>6
      <4>3. j.name \in Name /\ c.name \in Name
        BY <4>2 DEF Key
      <4>4. j.name.ext = c.name.ext => j.name = c.name
        BY <2>5, <4>1, <4>3 DEF Name
      <4>. QED  BY <1>7, <2>5, <4>2, <4>4 DEF Key
    <3>3. ExtRank[c.name.ext] # ExtRank[j.name.ext]
      <4>1. j.name.ext \in Exts /\ c.name.ext \in Exts
        BY <1>1, <1>6
      <4>. QED  BY <3>2, <4>1 DEF ExtRank, Exts
    <3>. QED  BY <2>1, <2>5, <3>1, <3>3 DEF Precedes
  <2>. QED  BY <2>2, <2>3, <2>4, <2>5
<1>. QED  BY <1>6, <1>7 DEF First

\* The file that is worked on, and what is made of it.
LEMMA CurrentIs ==
    ASSUME BucketAssumption, DownloadType, CommandInv, NamesInv, run.todo # {}
    PROVE  /\ Current \in run.todo /\ Current \in Names /\ Current \in Key
           /\ Product \in Key /\ Product \notin run.todo
           /\ Product.label = Current.label /\ Product.pad = Current.pad
           /\ ~Product.name.age /\ Product.name.ext \in {"gz", "db"}
           /\ run.pc # "decrypt" => Product.name.ext = "db"
<1>1. run.todo \in SUBSET Key /\ run.pc \in {"decrypt", "decompress"}
  BY DEF CommandInv, Run
<1>2. \A j, k \in run.todo : j.name.age = k.name.age
  <2>. SUFFICES ASSUME NEW j \in run.todo, NEW k \in run.todo PROVE j.name.age = k.name.age
    OBVIOUS
  <2>1. j.name.age = (run.pc = "decrypt") /\ k.name.age = (run.pc = "decrypt")
    BY DEF CommandInv
  <2>. QED  BY <2>1
<1>3. Current \in run.todo
  BY <1>1, <1>2, FirstIs DEF Current
<1>4. /\ Current \in Key /\ Current \in Names /\ Current.name.ext \in {"gz", "db"}
      /\ Current.name.age = (run.pc = "decrypt")
  BY <1>1, <1>3 DEF CommandInv, NamesInv
<1>. DEFINE c == Current
<1>. HIDE DEF c
<1>5. CASE run.pc = "decrypt"
  <2>1. Product = [c EXCEPT !.name.age = FALSE]
    BY <1>5 DEF Product, c
  <2>2. c \in Key
    BY <1>4 DEF c
  <2>3. Product \in Key /\ Product.label = c.label /\ Product.pad = c.pad
        /\ Product.name = [c.name EXCEPT !.age = FALSE]
    BY <2>1, <2>2 DEF Key, Name
  <2>4. c.name \in Name
    BY <2>2 DEF Key
  <2>5. Product.name.ext = c.name.ext /\ ~Product.name.age
    BY <2>3, <2>4 DEF Name
  <2>6. Product \notin run.todo
    BY <1>5, <2>5 DEF CommandInv
  <2>. QED  BY <1>3, <1>4, <1>5, <2>3, <2>5, <2>6 DEF c
<1>6. CASE run.pc = "decompress"
  <2>1. Product = [c EXCEPT !.name.ext = "db"]
    BY <1>6 DEF Product, c
  <2>2. c \in Key
    BY <1>4 DEF c
  <2>3. Product \in Key /\ Product.label = c.label /\ Product.pad = c.pad
        /\ Product.name = [c.name EXCEPT !.ext = "db"]
    BY <2>1, <2>2 DEF Key, Name, Exts
  <2>4. c.name \in Name /\ ~c.name.age
    BY <1>4, <1>6, <2>2 DEF Key, c
  <2>5. Product.name.ext = "db" /\ ~Product.name.age
    BY <2>3, <2>4 DEF Name
  <2>6. Product \notin run.todo
    BY <1>6, <2>5 DEF CommandInv
  <2>. QED  BY <1>3, <1>4, <1>6, <2>3, <2>5, <2>6 DEF c
<1>. QED  BY <1>1, <1>5, <1>6

\* A product takes the place of an earlier file of its name.
LEMMA WithIs ==
    ASSUME BucketAssumption, BucketOK, DownloadType, Current \in Names,
           NEW key \in Key, NEW cut \in BOOLEAN, dest' = With(key, cut)
    PROVE  /\ dest' \subseteq Download /\ \A f, g \in dest' : f.key = g.key => f = g
           /\ Names' = Names \cup {key}
           /\ \A f \in dest' : (f \in dest /\ f.key # key) \/ (f.key = key /\ f.cut = cut /\ f.mtime = now)
<1>. DEFINE p == [Original EXCEPT !.key = key, !.cut = cut, !.mtime = now]
<1>1. Original \in dest
  BY DEF Names, Original
<1>2. Original \in Download /\ now \in Time
  BY <1>1 DEF DownloadType, BucketOK
<1>3. p \in Download /\ p.key = key /\ p.cut = cut /\ p.mtime = now
  BY <1>2 DEF Download
<1>4. dest' = (dest \ FileAt(dest, key)) \cup {p}
  BY DEF With
<1>. HIDE DEF p
<1>5. dest' \subseteq Download /\ \A f, g \in dest' : f.key = g.key => f = g
  BY <1>3, <1>4 DEF FileAt, DownloadType
<1>6. Names' = Names \cup {key}
  BY <1>3, <1>4 DEF Names, FileAt
<1>7. \A f \in dest' : (f \in dest /\ f.key # key) \/ (f.key = key /\ f.cut = cut /\ f.mtime = now)
  BY <1>3, <1>4 DEF FileAt
<1>. QED  BY <1>5, <1>6, <1>7

-----------------------------------------------------------------------------
(* Decrypt, decompress.                                                    *)

\* The download job stands still.
DownloadRests == UNCHANGED <<now, bucket, temp, dl, held>>

\* While files are made, no download is under way, and what holds of the
\* download job only asks for well-formed files.
LEMMA FilesKeep ==
    ASSUME DownloadOK, CommandInv, run.pc # "download", DownloadRests,
           dest' \subseteq Download, \A f, g \in dest' : f.key = g.key => f = g
    PROVE  DownloadOK' /\ dl.pc = "idle" /\ dl.todo = {}
<1>1. dl = NoDownload
  BY DEF CommandInv
<1>2. dl.pc = "idle" /\ dl.todo = {}
  BY <1>1 DEF NoDownload
<1>3. BucketOK' /\ Covered'
  BY DEF DownloadRests, DownloadOK, BucketOK, Covered
<1>4. DownloadType'
  BY <1>2 DEF DownloadRests, DownloadOK, DownloadType
<1>5. FetchInv'
  BY <1>2 DEF DownloadRests, FetchInv
<1>. QED  BY <1>2, <1>3, <1>4, <1>5 DEF DownloadOK

\* Going on to the next file.
LEMMA Leaves ==
    ASSUME run \in Run, NEW clean \in BOOLEAN, Leave(clean)
    PROVE  /\ run' \in Run /\ run'.pc = run.pc /\ run'.todo = run.todo \ {Current}
           /\ run'.product = Absent /\ run'.pick = run.pick
           /\ run'.clean = (run.clean /\ clean)
BY DEF Run, Leave

\* The product is created.
LEMMA MakeKeeps ==
    ASSUME BucketAssumption, RecoverAssumption, Inv, Make
    PROVE  Inv'
<1>. USE DEF Inv
<1>1. /\ run.pc \in {"decrypt", "decompress"} /\ run.todo # {} /\ run.product = Absent
      /\ run' = [run EXCEPT !.product = Product] /\ dest' = With(Product, TRUE)
      /\ DownloadRests /\ UNCHANGED <<spent, app, untidy>>
  BY DEF Make, Making, NoEvent, DownloadRests
<1>2. /\ Current \in run.todo /\ Current \in Names /\ Product \in Key
      /\ Product \notin run.todo /\ Product.label = Current.label
      /\ Product.name.ext \in {"gz", "db"}
  BY <1>1, CurrentIs DEF DownloadOK
<1>3. /\ dest' \subseteq Download /\ \A f, g \in dest' : f.key = g.key => f = g
      /\ Names' = Names \cup {Product}
      /\ \A f \in dest' : (f \in dest /\ f.key # Product) \/ (f.key = Product /\ f.mtime = now)
  BY <1>1, <1>2, WithIs DEF DownloadOK
<1>4. DownloadOK'
  BY <1>1, <1>3, FilesKeep
<1>5. run \in Run
  BY DEF CommandInv
<1>6. /\ run' \in Run /\ run'.pc = run.pc /\ run'.todo = run.todo /\ run'.product = Product
      /\ run'.clean = run.clean
  BY <1>1, <1>2, <1>5 DEF Run
<1>7. Product' = Product
  BY <1>6 DEF Product, Current
<1>8. CommandInv'
  BY <1>1, <1>3, <1>6, <1>7 DEF CommandInv, DownloadRests
<1>9. WholeInv'
  <2>1. ASSUME NEW f \in dest, f.cut PROVE untidy
    <3>1. f.key \in Key
      BY DEF DownloadOK, DownloadType, Download
    <3>. QED  BY <1>1, <2>1, <3>1 DEF WholeInv, RecoverAssumption
  <2>. QED  BY <1>1, <1>3, <1>6, <2>1 DEF WholeInv
<1>10. NamesInv'
  <2>1. now \in Int
    BY PadIs DEF DownloadOK, BucketOK
  <2>2. now' = now /\ temp' = temp /\ DOMAIN bucket' = DOMAIN bucket
    BY <1>1 DEF DownloadRests
  <2>3. \A k \in DOMAIN bucket' \cup Names' : k.name.ext \in {"gz", "db"}
    BY <1>2, <1>3, <2>2 DEF NamesInv
  <2>4. \A f \in dest' \cup temp' : f.mtime <= now'
    BY <1>3, <2>1, <2>2 DEF NamesInv
  <2>. QED  BY <2>3, <2>4 DEF NamesInv
<1>11. HeldInv'
  BY <1>1, <1>2, <1>3 DEF HeldInv, DownloadRests, KeysOf
<1>12. PickInv'
  BY <1>1, <1>6 DEF PickInv
<1>13. NewestInv'
  BY <1>1, <1>3, <1>6 DEF NewestInv, Ready, DownloadRests
<1>14. InstalledIsWhole'
  BY <1>1 DEF InstalledIsWhole
<1>. QED  BY <1>4, <1>8, <1>9, <1>10, <1>11, <1>12, <1>13, <1>14

\* The product is written to its end.
LEMMA MadeKeeps ==
    ASSUME BucketAssumption, RecoverAssumption, Inv, Made
    PROVE  Inv'
<1>. USE DEF Inv
<1>1. /\ run.pc \in {"decrypt", "decompress"} /\ run.todo # {} /\ run.product = Product
      /\ Leave(TRUE) /\ dest' = With(Product, FALSE)
      /\ DownloadRests /\ UNCHANGED <<spent, app, untidy>>
  BY DEF Made, Making, NoEvent, DownloadRests, CommandInv
<1>2. /\ Current \in run.todo /\ Current \in Names /\ Product \in Key
      /\ Product \notin run.todo /\ Product.label = Current.label /\ Product.pad = Current.pad
      /\ Product.name.ext \in {"gz", "db"} /\ ~Product.name.age
      /\ run.pc # "decrypt" => Product.name.ext = "db"
  BY <1>1, CurrentIs DEF DownloadOK
<1>3. /\ dest' \subseteq Download /\ \A f, g \in dest' : f.key = g.key => f = g
      /\ Names' = Names \cup {Product}
      /\ \A f \in dest' : \/ f \in dest /\ f.key # Product
                          \/ f.key = Product /\ f.cut = FALSE /\ f.mtime = now
  BY <1>1, <1>2, WithIs DEF DownloadOK
<1>4. DownloadOK'
  BY <1>1, <1>3, FilesKeep
<1>5. run \in Run
  BY DEF CommandInv
<1>6. /\ run' \in Run /\ run'.pc = run.pc /\ run'.todo = run.todo \ {Current}
      /\ run'.product = Absent /\ run'.clean = (run.clean /\ TRUE)
  BY <1>1, <1>5, Leaves
<1>7. CommandInv'
  BY <1>1, <1>3, <1>6 DEF CommandInv, DownloadRests
<1>8. WholeInv'
  BY <1>1, <1>3 DEF WholeInv
<1>9. NamesInv'
  <2>1. now \in Int
    BY PadIs DEF DownloadOK, BucketOK
  <2>2. now' = now /\ temp' = temp /\ DOMAIN bucket' = DOMAIN bucket
    BY <1>1 DEF DownloadRests
  <2>3. \A k \in DOMAIN bucket' \cup Names' : k.name.ext \in {"gz", "db"}
    BY <1>2, <1>3, <2>2 DEF NamesInv
  <2>4. \A f \in dest' \cup temp' : f.mtime <= now'
    BY <1>3, <2>1, <2>2 DEF NamesInv
  <2>. QED  BY <2>3, <2>4 DEF NamesInv
<1>10. HeldInv'
  BY <1>1, <1>2, <1>3 DEF HeldInv, DownloadRests, KeysOf
<1>11. PickInv'
  BY <1>1, <1>6 DEF PickInv
<1>12. NewestInv'
  <2>1. ASSUME NEW l \in Labels, Ready(l)
        PROVE  Ready(l)'
    <3>1. PICK k \in Names :
              /\ k.label = l /\ k.pad = held[l]
              /\ k.name.age => run.pc = "download" \/ k \in run.todo
              /\ k.name.ext = "gz" => run.pc \in {"download", "decrypt"} \/ k \in run.todo
      BY <2>1 DEF Ready
    <3>2. CASE k # Current
      BY <1>1, <1>3, <1>6, <3>1, <3>2 DEF Ready, DownloadRests
    <3>3. CASE k = Current
      <4>1. Product \in Names' /\ Product.label = l /\ Product.pad = held'[l]
        BY <1>1, <1>2, <1>3, <3>1, <3>3 DEF DownloadRests
      <4>2. Product.name.ext = "gz" => run'.pc = "decrypt"
        BY <1>2, <1>6
      <4>. QED  BY <1>2, <4>1, <4>2 DEF Ready
    <3>. QED  BY <3>2, <3>3
  <2>2. run'.clean => run.clean
    BY <1>6
  <2>. QED  BY <1>1, <1>6, <2>1, <2>2 DEF NewestInv, DownloadRests
<1>13. InstalledIsWhole'
  BY <1>1 DEF InstalledIsWhole
<1>. QED  BY <1>4, <1>7, <1>8, <1>9, <1>10, <1>11, <1>12, <1>13

\* A product that cannot be made, or not to its end.
LEMMA FailedKeeps ==
    ASSUME BucketAssumption, RecoverAssumption, Inv, FailMake \/ Spoil
    PROVE  Inv'
<1>. USE DEF Inv
<1>1. /\ run.pc \in {"decrypt", "decompress"} /\ run.todo # {} /\ Leave(FALSE)
      /\ DownloadRests /\ UNCHANGED app
      /\ untidy' \in BOOLEAN
      /\ untidy => untidy'
  <2>1. CASE FailMake
    BY <2>1 DEF FailMake, Making, OnlyRun, downloadVars, DownloadRests, CommandInv
  <2>2. CASE Spoil
    <3>1. UNCHANGED untidy \/ untidy' = TRUE
      BY <2>2 DEF Spoil
    <3>2. untidy \in BOOLEAN /\ (run.product # Absent => run.todo # {})
      BY DEF CommandInv
    <3>3. untidy' \in BOOLEAN
      BY <3>1, <3>2
    <3>4. untidy => untidy'
      BY <3>1
    <3>. QED  BY <2>2, <3>2, <3>3, <3>4 DEF Spoil, Making, DownloadRests
  <2>. QED  BY <2>1, <2>2
<1>2. spent' \in 0 .. MaxEvents
  <2>1. CASE FailMake
    BY <2>1, CountedStays DEF FailMake, NoEvent, Inject, Counted, CommandInv
  <2>2. CASE Spoil
    BY <2>2, CountedStays DEF Spoil, Inject, Counted, CommandInv
  <2>. QED  BY <2>1, <2>2
<1>3. /\ Current \in run.todo /\ Product \notin run.todo
  BY <1>1, CurrentIs DEF DownloadOK
<1>4. dest' \subseteq dest /\ \A f \in dest : f.key # run.product => f \in dest'
  BY DEF FailMake, Spoil, OnlyRun, downloadVars, FileAt
<1>5. \A f \in dest' : f.cut => untidy'
  <2>1. CASE run.product = Absent
    <3>1. \A f \in dest : f.key \in Key
      BY DEF DownloadOK, DownloadType, Download
    <3>. QED  BY <1>1, <1>4, <2>1, <3>1 DEF WholeInv, RecoverAssumption
  <2>2. CASE run.product # Absent
    <3>1. untidy' \/ dest' = dest \ FileAt(dest, run.product)
      BY <2>2 DEF FailMake, Spoil
    <3>. QED  BY <1>1, <3>1 DEF WholeInv, FileAt
  <2>. QED  BY <2>1, <2>2
<1>6. Names' \subseteq Names /\ \A k \in Names : k # run.product => k \in Names'
  BY <1>4 DEF Names
<1>7. DownloadOK'
  <2>1. dest' \subseteq Download /\ \A f, g \in dest' : f.key = g.key => f = g
    BY <1>4 DEF DownloadOK, DownloadType
  <2>. QED  BY <1>1, <2>1, FilesKeep
<1>8. run \in Run
  BY DEF CommandInv
<1>9. /\ run' \in Run /\ run'.pc = run.pc /\ run'.todo = run.todo \ {Current}
      /\ run'.product = Absent /\ run'.clean = (run.clean /\ FALSE)
  BY <1>1, <1>8, Leaves
<1>10. \A k \in run.todo : k # run.product
  <2>1. \A k \in run.todo : k \in Key
    BY <1>8 DEF Run
  <2>. QED  BY <1>3, <2>1 DEF CommandInv, RecoverAssumption
<1>11. CommandInv'
  BY <1>1, <1>2, <1>6, <1>9, <1>10 DEF CommandInv, DownloadRests
<1>12. WholeInv'
  BY <1>5 DEF WholeInv
<1>13. NamesInv'
  BY <1>1, <1>4, <1>6 DEF NamesInv, DownloadRests
<1>14. HeldInv'
  BY <1>1, <1>6 DEF HeldInv, DownloadRests, KeysOf
<1>15. PickInv' /\ NewestInv'
  BY <1>1, <1>9 DEF PickInv, NewestInv
<1>16. InstalledIsWhole'
  BY <1>1 DEF InstalledIsWhole
<1>. QED  BY <1>7, <1>11, <1>12, <1>13, <1>14, <1>15, <1>16

\* What was decrypted is decompressed, and then the database is looked for.
LEMMA EndMakingKeeps ==
    ASSUME BucketAssumption, RecoverAssumption, Inv, EndMaking
    PROVE  Inv'
<1>. USE DEF Inv
<1>1. /\ run.pc \in {"decrypt", "decompress"} /\ run.todo = {} /\ run.product = Absent
      /\ DownloadRests /\ UNCHANGED <<spent, app, untidy, dest>>
  BY DEF EndMaking, Making, NoEvent, OnlyRun, downloadVars, DownloadRests, CommandInv
<1>2. DownloadOK'
  BY <1>1, FilesKeep DEF DownloadOK, DownloadType
<1>3. Names' = Names
  BY <1>1 DEF Names
<1>4. run \in Run
  BY DEF CommandInv
<1>5. /\ Compressed(dest) \subseteq Names /\ Compressed(dest) \subseteq Key
      /\ \A k \in Compressed(dest) : k.name.ext = "gz" /\ ~k.name.age
      /\ \A k \in Names : k.name.ext = "gz" /\ ~k.name.age => k \in Compressed(dest)
  BY DEF Compressed, Names, DownloadOK, DownloadType, Download
<1>6. CASE run.pc = "decrypt"
  <2>1. run' = [run EXCEPT !.pc = "decompress", !.todo = Compressed(dest)]
    BY <1>6 DEF EndMaking
  <2>2. /\ run' \in Run /\ run'.pc = "decompress" /\ run'.todo = Compressed(dest)
        /\ run'.product = Absent /\ run'.clean = run.clean
    BY <1>1, <1>4, <1>5, <2>1 DEF Run
  <2>3. \A k \in Compressed(dest) : k.name.age = FALSE
    <3>1. \A k \in Compressed(dest) : k.name.age \in BOOLEAN
      BY <1>5 DEF Key, Name
    <3>. QED  BY <1>5, <3>1
  <2>4. CommandInv'
    BY <1>1, <1>3, <1>5, <2>2, <2>3 DEF CommandInv, DownloadRests
  <2>5. WholeInv' /\ NamesInv' /\ HeldInv' /\ PickInv' /\ InstalledIsWhole'
    BY <1>1, <1>3, <2>2 DEF WholeInv, NamesInv, HeldInv, PickInv, InstalledIsWhole,
          DownloadRests, KeysOf
  <2>6. NewestInv'
    <3>1. ASSUME NEW l \in Labels, Ready(l) PROVE Ready(l)'
      BY <1>1, <1>3, <1>5, <1>6, <2>2, <3>1 DEF Ready, DownloadRests
    <3>. QED  BY <1>1, <1>6, <2>2, <3>1 DEF NewestInv, DownloadRests
  <2>. QED  BY <1>2, <2>4, <2>5, <2>6
<1>7. CASE run.pc = "decompress"
  <2>1. run' = [run EXCEPT !.pc = "find"]
    BY <1>7 DEF EndMaking
  <2>2. /\ run' \in Run /\ run'.pc = "find" /\ run'.todo = {}
        /\ run'.product = Absent /\ run'.clean = run.clean
    BY <1>1, <1>4, <2>1 DEF Run
  <2>3. CommandInv'
    BY <1>1, <1>7, <2>2 DEF CommandInv, DownloadRests
  <2>4. WholeInv' /\ NamesInv' /\ HeldInv' /\ PickInv' /\ InstalledIsWhole'
    BY <1>1, <1>3, <2>2 DEF WholeInv, NamesInv, HeldInv, PickInv, InstalledIsWhole,
          DownloadRests, KeysOf
  <2>5. NewestInv'
    <3>1. ASSUME NEW l \in Labels, Ready(l) PROVE Ready(l)'
      BY <1>1, <1>3, <1>7, <2>2, <3>1 DEF Ready, DownloadRests
    <3>. QED  BY <1>1, <1>7, <2>2, <3>1 DEF NewestInv, DownloadRests
  <2>. QED  BY <1>2, <2>3, <2>4, <2>5
<1>. QED  BY <1>1, <1>6, <1>7

-----------------------------------------------------------------------------
(* Download.                                                               *)

\* Every entry is due: no file is from the future, and the intervals are zero.
LEMMA AllDue ==
    ASSUME BucketAssumption, DownloadAssumption, RecoverAssumption, DownloadOK, NamesInv,
           NEW l \in Labels
    PROVE  IsDue(l) /\ Source[l] # Absent
<1>1. ASSUME NEW f \in Seen(l)
      PROVE  now - f.mtime >= 0
  <2>1. f \in dest /\ f.mtime \in Time /\ now \in Time
    BY DEF Seen, DownloadOK, DownloadType, BucketOK, Download
  <2>2. f.mtime \in Int /\ now \in Int /\ f.mtime <= now
    BY <2>1, PadIs DEF NamesInv
  <2>. QED  BY <2>2
<1>2. Source[l] = l /\ Interval[l] = 0
  BY DEF RecoverAssumption
<1>. QED  BY <1>1, <1>2 DEF IsDue, DownloadAssumption

\* A step of the pass without an error: the entry goes on, or is done with.
EntryDone(l) ==
    \/ FoundHere(l) \/ FileArrives(l)
    \/ KeysOf(Source[l]) = {} /\ UNCHANGED <<dest, held>>

LEMMA CleanEntry ==
    ASSUME BucketAssumption, DownloadAssumption, RecoverAssumption, DownloadOK, NamesInv,
           spent \in 0 .. MaxEvents, NEW l \in Labels, DownloadEntry(l), UNCHANGED spent
    PROVE  \/ dl'.todo = dl.todo /\ UNCHANGED <<dest, held>>
           \/ dl'.todo = dl.todo \ {l} /\ EntryDone(l)
<1>1. \A kind : ~Inject(kind)
  BY DEF Inject, BucketAssumption
<1>2. LeaveDownload(l) => dl'.todo = dl.todo \ {l}
  BY Leaving DEF DownloadOK
<1>3. CASE SkipDownload(l)
  BY <1>3, AllDue DEF SkipDownload, DownloadAssumption
<1>4. CASE Attempt(l)
  BY <1>4 DEF Attempt, OnlyDl, DownloadOK, DownloadType, DownloadPass
<1>5. CASE NotFound(l)
  BY <1>2, <1>5 DEF NotFound, OnlyDl, EntryDone
<1>6. CASE List(l)
  <2>1. CASE FoundHere(l) /\ dl'.pc \in {"idle", "next"}
    <3>1. CASE dl' = [dl EXCEPT !.pc = "get", !.object = FirstKey(Source[l]),
                                !.first = FirstKey(Source[l]).pad]
      BY <2>1, <3>1 DEF DownloadOK, DownloadType, DownloadPass
    <3>. QED  BY <1>2, <1>6, <2>1, <3>1 DEF List, EntryDone
  <2>. QED  BY <1>6, <2>1, ListStep
<1>7. CASE Get(l)
  BY <1>7, GetStep
<1>8. CASE Create(l) \/ Copy(l)
  BY <1>8, TempStep
<1>9. CASE Rename(l)
  BY <1>2, <1>9, RenameStep DEF Rename, EntryDone
<1>10. ~(FailList(l) \/ FailGet(l) \/ FailCreate(l) \/ FailCopy(l) \/ FailRename(l))
  BY <1>1 DEF FailList, FailGet, FailCreate, FailCopy, FailRename
<1>. QED  BY <1>3, <1>4, <1>5, <1>6, <1>7, <1>8, <1>9, <1>10 DEF DownloadEntry

\* What is listed is of the entry in hand.
LEMMA ObjectKeeps ==
    ASSUME BucketAssumption, DownloadAssumption, RecoverAssumption, DownloadOK,
           dl.pc \in {"get", "create", "copy", "rename"} => dl.object.label = Min(dl.todo),
           NEW l \in Labels, DownloadEntry(l)
    PROVE  dl'.pc \in {"get", "create", "copy", "rename"} => dl'.object.label = Min(dl'.todo)
<1>. DEFINE Listed == dl'.pc \in {"get", "create", "copy", "rename"}
                          => dl'.object.label = Min(dl'.todo)
<1>1. LeaveDownload(l) => Listed
  BY Leaving DEF DownloadOK
<1>2. dl \in DownloadPass
  BY DEF DownloadOK, DownloadType
<1>3. CASE Attempt(l)
  BY <1>2, <1>3 DEF Attempt, DownloadPass
<1>4. CASE List(l)
  <2>1. FirstKey(Source[l]).label = l
    BY <1>4, FirstIsListed DEF List, RecoverAssumption, KeysOf, DownloadOK, BucketOK
  <2>2. CASE dl' = [dl EXCEPT !.pc = "get", !.object = FirstKey(Source[l]),
                              !.first = FirstKey(Source[l]).pad]
    <3>1. dl'.object = FirstKey(Source[l]) /\ dl'.todo = dl.todo
      BY <1>2, <2>2 DEF DownloadPass
    <3>2. l = Min(dl.todo)
      BY <1>4 DEF List, DownloadAt, Downloading
    <3>. QED  BY <2>1, <3>1, <3>2
  <2>. QED  BY <1>1, <1>4, <2>2 DEF List
<1>5. CASE Get(l) \/ Create(l) \/ Copy(l)
  <2>1. dl.pc \in {"get", "create", "copy"}
    BY <1>5 DEF Get, Create, Copy, DownloadAt
  <2>2. dl'.object = dl.object /\ dl'.todo = dl.todo
    BY <1>2, <1>5 DEF Get, Create, Copy, DownloadPass
  <2>. QED  BY <2>1, <2>2
<1>. QED  BY <1>1, <1>3, <1>4, <1>5 DEF DownloadEntry, SkipDownload, NotFound, FailList,
        FailGet, FailCreate, FailCopy, FailRename, Rename

\* No file is from the future.
LEMMA TimesKeep ==
    ASSUME BucketAssumption, DownloadOK, NEW l \in Labels, DownloadEntry(l),
           \A f \in dest \cup temp : f.mtime <= now
    PROVE  \A f \in dest' \cup temp' : f.mtime <= now
<1>1. now \in Int
  BY PadIs DEF DownloadOK, BucketOK
<1>2. CASE Create(l) \/ Copy(l)
  <2>1. dest' = dest /\ \E cut \in BOOLEAN : temp' = WithoutTemp(l) \cup {TempFile(l, cut)}
    BY <1>2 DEF Create, Copy
  <2>2. \A cut \in BOOLEAN : TempFile(l, cut).mtime = now
    BY DEF TempFile
  <2>. QED  BY <1>1, <2>1, <2>2 DEF WithoutTemp
<1>3. CASE Rename(l)
  BY <1>3 DEF Rename, WithoutTemp, FileAt
<1>4. CASE FailCopy(l) \/ FailRename(l)
  BY <1>4 DEF FailCopy, FailRename, Tidy, WithoutTemp
<1>5. CASE ~(Create(l) \/ Copy(l) \/ Rename(l) \/ FailCopy(l) \/ FailRename(l))
  BY <1>5 DEF DownloadEntry, SkipDownload, Attempt, NotFound, List, FailList, Get, FailGet,
        FailCreate, OnlyDl
<1>. QED  BY <1>2, <1>3, <1>4, <1>5

\* A key has a pad, and a pad is not Absent.
LEMMA PadIsThere ==
    ASSUME BucketAssumption, NEW k \in Key
    PROVE  k.pad # Absent /\ k.label \in Labels
<1>1. PICK t \in Time : k.pad = MaxTime - t
  BY DEF Key, Pad
<1>2. k.pad \in 0 .. MaxTime
  BY <1>1 DEF BucketAssumption, Time
<1>. QED  BY <1>2 DEF BucketAssumption, Key

\* The names and the history after a step of the pass.
LEMMA PassNames ==
    ASSUME BucketAssumption, DownloadAssumption, RecoverAssumption, DownloadOK, HeldInv,
           NamesInv, NEW l \in Labels, DownloadEntry(l)
    PROVE  \/ Names' = Names /\ held' = held
           \/ /\ Names' = Names
              /\ \E k \in Names : k.label = l /\ held' = [held EXCEPT ![l] = k.pad]
           \/ \E k \in Key :
                  /\ Names' = Names \cup {k} /\ k.label = l /\ k.name.ext \in {"gz", "db"}
                  /\ held' = [held EXCEPT ![l] = k.pad] /\ KeysOf(l) # {}
<1>1. dest' = dest => Names' = Names
  BY DEF Names
<1>2. CASE FoundHere(l)
  <2>1. PICK f \in dest : f.key.label = l /\ held' = [held EXCEPT ![l] = f.key.pad]
    BY <1>2 DEF FoundHere
  <2>2. f.key \in Names /\ Names' = Names
    BY <1>1, <1>2 DEF FoundHere, Names
  <2>. QED  BY <2>1, <2>2
<1>3. CASE Rename(l)
  <2>1. PICK f \in Fetched : /\ f.key.label = l /\ held' = [held EXCEPT ![l] = f.key.pad]
                             /\ dest' = (dest \ FileAt(dest, f.key)) \cup {f}
    BY <1>3, RenameStep DEF FileArrives
  <2>2. dl.pc = "rename" /\ l = Min(dl.todo)
    BY <1>3 DEF Rename, DownloadAt, Downloading
  <2>3. dl.object \in DOMAIN bucket /\ dl.object.label = l
    BY <2>2 DEF DownloadOK, FetchInv, HeldInv
  <2>4. f \in temp /\ f.key = DestKey(l, dl.object)
    BY <2>1, <2>2 DEF Fetched, FileAt
  <2>5. f.key \in Key /\ f.key.name = dl.object.name
    BY <2>4 DEF DownloadOK, DownloadType, Download, DestKey, ObjectKey
  <2>6. f.key.name.ext \in {"gz", "db"}
    BY <2>3, <2>5 DEF NamesInv
  <2>7. KeysOf(l) # {}
    BY <2>3 DEF KeysOf
  <2>8. Names' = Names \cup {f.key}
    BY <2>1 DEF Names, FileAt
  <2>. QED  BY <2>1, <2>5, <2>6, <2>7, <2>8
<1>4. CASE UNCHANGED <<dest, held>>
  BY <1>1, <1>4
<1>. QED  BY <1>2, <1>3, <1>4, QuietStep, ListStep, GetStep, TempStep, GiveUpStep
          DEF DownloadEntry

\* A step of the download pass.
LEMMA PassKeeps ==
    ASSUME BucketAssumption, DownloadAssumption, RecoverAssumption, Inv, DownloadBackups
    PROVE  Inv'
<1>. USE DEF Inv
<1>. DEFINE ends == dl'.pc = "idle"
<1>1. PICK l \in Labels : DownloadEntry(l)
  BY DEF DownloadBackups, DownloadStep
<1>2. /\ run.pc = "download" /\ UNCHANGED <<app, untidy>>
      /\ run' = [run EXCEPT !.pc = IF ends THEN "decrypt" ELSE @,
                            !.todo = IF ends THEN Encrypted(dest') ELSE @,
                            !.clean = run.clean /\ UNCHANGED spent]
  BY DEF DownloadBackups
<1>3. DownloadOK' /\ UNCHANGED <<now, bucket>>
  BY <1>1, EntryKeeps
<1>4. spent' \in 0 .. MaxEvents
  BY <1>1, DownloadEntryCounts, CountedStays DEF CommandInv
<1>5. run \in Run /\ run.todo = {} /\ run.product = Absent
  BY <1>2 DEF CommandInv
<1>6. /\ Encrypted(dest') \subseteq Names' /\ Encrypted(dest') \subseteq Key
      /\ \A k \in Encrypted(dest') : k.name.age
      /\ \A k \in Names' : k.name.age => k \in Encrypted(dest')
      /\ Names' \subseteq Key
  BY <1>3 DEF Encrypted, Names, DownloadOK, DownloadType, Download
<1>7. /\ run' \in Run /\ run'.pc = (IF ends THEN "decrypt" ELSE "download")
      /\ run'.todo = (IF ends THEN Encrypted(dest') ELSE {})
      /\ run'.product = Absent /\ run'.clean = (run.clean /\ UNCHANGED spent)
  BY <1>2, <1>5, <1>6 DEF Run
<1>8. ends => dl' = NoDownload
  <2>1. LeaveDownload(l) => (ends => dl' = NoDownload)
    BY DEF LeaveDownload, NoDownload
  <2>2. dl.pc # "idle" /\ dl \in DownloadPass
    BY <1>2 DEF CommandInv, DownloadOK, DownloadType
  <2>3. Attempt(l) \/ List(l) \/ Get(l) \/ Create(l) \/ Copy(l) => LeaveDownload(l) \/ ~ends
    BY <2>2 DEF Attempt, List, Get, Create, Copy, DownloadPass
  <2>. QED  BY <1>1, <2>1, <2>3 DEF DownloadEntry, SkipDownload, NotFound, FailList, FailGet,
            FailCreate, FailCopy, Rename, FailRename
<1>9. CommandInv'
  <2>1. \A k \in Encrypted(dest') : k.name.age = TRUE
    <3>1. \A k \in Encrypted(dest') : k.name.age \in BOOLEAN
      BY <1>6 DEF Key, Name
    <3>. QED  BY <1>6, <3>1
  <2>2. app' \in Download \cup {Absent} /\ untidy' \in BOOLEAN
    BY <1>2 DEF CommandInv
  <2>. QED  BY <1>4, <1>6, <1>7, <1>8, <2>1, <2>2 DEF CommandInv
<1>10. \/ Names' = Names /\ held' = held
       \/ /\ Names' = Names
          /\ \E k \in Names : k.label = l /\ held' = [held EXCEPT ![l] = k.pad]
       \/ \E k \in Key :
              /\ Names' = Names \cup {k} /\ k.label = l /\ k.name.ext \in {"gz", "db"}
              /\ held' = [held EXCEPT ![l] = k.pad] /\ KeysOf(l) # {}
  BY <1>1, PassNames
<1>11. held \in [Labels -> {Pad(t) : t \in Time} \cup {Absent}]
  BY DEF DownloadOK, DownloadType
<1>12. Names \subseteq Names' /\ \A m \in Labels : m # l => held'[m] = held[m]
  BY <1>10, <1>11
<1>13. \A k \in Names' : k \notin Names => /\ k.label = l /\ held'[l] = k.pad
                                           /\ k.name.ext \in {"gz", "db"}
  BY <1>10, <1>11
<1>14. WholeInv'
  <2>1. \A f \in dest' : f \in dest \/ ~f.cut
    BY <1>1, EntryKeeps DEF FoundHere, FileArrives
  <2>. QED  BY <1>2, <1>5, <1>7, <2>1 DEF WholeInv
<1>15. NamesInv'
  <2>1. \A f \in dest' \cup temp' : f.mtime <= now'
    BY <1>1, <1>3, TimesKeep DEF NamesInv
  <2>. QED  BY <1>3, <1>13, <2>1 DEF NamesInv
<1>16. HeldInv'
  <2>1. \A k \in Names' : held'[k.label] # Absent
    BY <1>6, <1>10, <1>11, PadIsThere DEF HeldInv
  <2>2. \A m \in Labels : held'[m] # Absent => KeysOf(m) # {}
    BY <1>10, <1>11 DEF HeldInv
  <2>. QED  BY <1>1, <1>3, <2>1, <2>2, ObjectKeeps DEF HeldInv, KeysOf
<1>17. NewestInv'
  <2>. SUFFICES ASSUME run'.clean, NEW m \in Labels \ dl'.todo, held'[m] # Absent
                PROVE  Ready(m)'
    BY DEF NewestInv
  <2>1. run.clean /\ UNCHANGED spent
    BY <1>7
  <2>2. CASE \E k \in Names' : k.label = m /\ k.pad = held'[m]
    BY <1>6, <1>7, <2>2 DEF Ready
  <2>3. CASE m \notin dl.todo /\ held'[m] = held[m]
    <3>1. Ready(m)
      BY <1>2, <2>1, <2>3 DEF NewestInv
    <3>. QED  BY <1>12, <2>2, <2>3, <3>1 DEF Ready
  <2>4. CASE m = l /\ EntryDone(l)
    <3>1. CASE FoundHere(l)
      BY <1>11, <1>12, <2>2, <2>4, <3>1 DEF FoundHere, Names
    <3>2. CASE FileArrives(l)
      <4>1. PICK f \in Fetched : /\ f.key.label = l /\ f \in dest'
                                 /\ held' = [held EXCEPT ![l] = f.key.pad]
        BY <3>2 DEF FileArrives
      <4>. QED  BY <1>11, <2>2, <2>4, <4>1 DEF Names
    <3>3. CASE KeysOf(Source[l]) = {} /\ UNCHANGED <<dest, held>>
      BY <2>4, <3>3 DEF HeldInv, RecoverAssumption
    <3>. QED  BY <2>4, <3>1, <3>2, <3>3 DEF EntryDone
  <2>5. \/ dl'.todo = dl.todo /\ UNCHANGED <<dest, held>>
        \/ dl'.todo = dl.todo \ {l} /\ EntryDone(l)
    BY <1>1, <2>1, CleanEntry DEF CommandInv
  <2>. QED  BY <1>12, <2>3, <2>4, <2>5
<1>18. PickInv'
  BY <1>7 DEF PickInv
<1>19. InstalledIsWhole'
  BY <1>2 DEF InstalledIsWhole
<1>. QED  BY <1>3, <1>9, <1>14, <1>15, <1>16, <1>17, <1>18, <1>19

-----------------------------------------------------------------------------
(* Start, find, move, and the end of a run.                                *)

\* Nothing is being made: every cut file was left behind.
LEMMA Settled ==
    ASSUME RecoverAssumption, DownloadType, CommandInv, WholeInv,
           run.pc \notin {"decrypt", "decompress"}
    PROVE  run.todo = {} /\ run.product = Absent /\ \A f \in dest : f.cut => untidy
<1>1. run.todo = {} /\ run.product = Absent
  BY DEF CommandInv
<1>2. \A f \in dest : f.key \in Key
  BY DEF DownloadType, Download
<1>. QED  BY <1>1, <1>2 DEF WholeInv, RecoverAssumption

\* Only failures are counted.
LEMMA RestKeeps ==
    ASSUME Inv, spent' \in 0 .. MaxEvents,
           UNCHANGED <<now, bucket, dest, temp, dl, held, app, run, untidy>>
    PROVE  Inv'
<1>. USE DEF Inv
<1>1. DownloadOK'
  BY DEF DownloadOK, BucketOK, DownloadType, Covered, FetchInv, Fetched
<1>2. Names' = Names
  BY DEF Names
<1>3. CommandInv'
  BY <1>2 DEF CommandInv, Product, Current
<1>4. WholeInv' /\ NamesInv' /\ HeldInv' /\ PickInv' /\ InstalledIsWhole'
  BY <1>2 DEF WholeInv, NamesInv, HeldInv, KeysOf, PickInv, InstalledIsWhole
<1>5. NewestInv'
  BY <1>2 DEF NewestInv, Ready
<1>. QED  BY <1>1, <1>3, <1>4, <1>5

\* A run that is over, or broken off: what it was writing stays.
LEMMA StopKeeps ==
    ASSUME BucketAssumption, RecoverAssumption, DownloadOK, CommandInv, WholeInv, NamesInv,
           HeldInv, spent' \in 0 .. MaxEvents, dl' = NoDownload,
           run' \in {Idle, [Idle EXCEPT !.pc = "done"]},
           UNCHANGED <<now, bucket, temp, held>>, dest' \subseteq dest,
           app' \in Download \cup {Absent}, InstalledIsWhole',
           untidy' \in BOOLEAN, untidy \/ run.product # Absent => untidy'
    PROVE  Inv'
<1>1. /\ run' \in Run /\ run'.pc \in {"idle", "done"} /\ run'.todo = {}
      /\ run'.product = Absent
  <2>1. Idle \in Run /\ [Idle EXCEPT !.pc = "done"] \in Run
    BY DEF Idle, Run
  <2>2. CASE run' = Idle
    BY <2>1, <2>2 DEF Idle
  <2>3. CASE run' = [Idle EXCEPT !.pc = "done"]
    BY <2>1, <2>3 DEF Idle
  <2>. QED  BY <2>2, <2>3
<1>2. dl' \in DownloadPass /\ dl'.pc = "idle" /\ dl'.todo = {}
  BY DEF NoDownload, DownloadPass
<1>3. Names' \subseteq Names
  BY DEF Names
<1>4. DownloadOK'
  BY <1>2 DEF DownloadOK, BucketOK, DownloadType, Covered, FetchInv
<1>5. CommandInv'
  BY <1>1, <1>2 DEF CommandInv
<1>6. WholeInv'
  <2>1. \A f \in dest : f.key \in Key
    BY DEF DownloadOK, DownloadType, Download
  <2>. QED  BY <2>1 DEF WholeInv, RecoverAssumption
<1>7. NamesInv' /\ HeldInv' /\ PickInv' /\ NewestInv'
  BY <1>1, <1>2, <1>3 DEF NamesInv, HeldInv, KeysOf, PickInv, NewestInv
<1>. QED  BY <1>4, <1>5, <1>6, <1>7 DEF Inv

\* A run starts over, on what the last one left.
LEMMA StartKeeps ==
    ASSUME BucketAssumption, RecoverAssumption, Inv, Start
    PROVE  Inv'
<1>. USE DEF Inv
<1>1. /\ run.pc \in {"idle", "done"} /\ run' = [Idle EXCEPT !.pc = "download"]
      /\ dl' = [NoDownload EXCEPT !.pc = "next", !.todo = Labels]
      /\ UNCHANGED <<now, bucket, dest, temp, held, app, untidy>>
  BY DEF Start
<1>2. spent' \in 0 .. MaxEvents
  BY CountedStays DEF Start, Inject, Counted, CommandInv
<1>3. /\ run' \in Run /\ run'.pc = "download" /\ run'.todo = {} /\ run'.product = Absent
  BY <1>1 DEF Idle, Run
<1>4. dl' \in DownloadPass /\ dl'.pc = "next" /\ dl'.todo = Labels
  BY <1>1 DEF NoDownload, DownloadPass
<1>5. DownloadOK'
  BY <1>1, <1>4 DEF DownloadOK, BucketOK, DownloadType, Covered, FetchInv
<1>6. Names' = Names
  BY <1>1 DEF Names
<1>7. CommandInv'
  BY <1>1, <1>2, <1>3, <1>4 DEF CommandInv
<1>8. WholeInv'
  BY <1>1, Settled DEF DownloadOK, WholeInv
<1>9. NamesInv' /\ HeldInv' /\ PickInv' /\ NewestInv' /\ InstalledIsWhole'
  BY <1>1, <1>3, <1>4, <1>6 DEF NamesInv, HeldInv, KeysOf, PickInv, NewestInv, InstalledIsWhole
<1>. QED  BY <1>5, <1>7, <1>8, <1>9

\* The path of an entry is the first of the databases that its pattern matches.
LEMMA DbPathIs ==
    ASSUME BucketAssumption, DownloadAssumption, DownloadType, NEW l \in Labels,
           Databases(l) # {}
    PROVE  /\ DbPath(l) \in Databases(l)
           /\ \A j \in Databases(l) \ {DbPath(l)} :
                  DbPath(l).label < j.label
                      \/ (DbPath(l).label = j.label /\ Precedes(DbPath(l), j))
<1>1. Databases(l) \subseteq Key /\ \A k \in Databases(l) : ~k.name.age
  BY DEF Databases, Seen, DownloadType, Download
<1>2. \A k \in Databases(l) : k.name.age \in BOOLEAN
  BY <1>1 DEF Key, Name
<1>3. \A k \in Databases(l) : k.name.age = FALSE
  BY <1>1, <1>2
<1>4. \A j, k \in Databases(l) : j.name.age = k.name.age
  BY <1>3
<1>. QED  BY <1>1, <1>4, FirstIs DEF DbPath

\* A database is picked: the first of its label.
LEMMA FindKeeps ==
    ASSUME BucketAssumption, DownloadAssumption, RecoverAssumption, Inv, Find
    PROVE  Inv'
<1>. USE DEF Inv
<1>1. PICK x \in Labels : /\ Databases(x) # {} /\ MayRead(FileOf(DbPath(x)))
                          /\ run' = [run EXCEPT !.pc = "move", !.pick = DbPath(x)]
  <2>1. PICK k \in DbPaths : /\ MayRead(FileOf(k))
                             /\ run' = [run EXCEPT !.pc = "move", !.pick = k]
    BY DEF Find
  <2>2. PICK x \in {y \in Labels : Databases(y) # {}} : k = DbPath(x)
    BY DEF DbPaths
  <2>. QED  BY <2>1, <2>2
<1>. DEFINE key == DbPath(x)
<1>2. run.pc = "find" /\ UNCHANGED <<spent, now, bucket, dest, temp, dl, held, app, untidy>>
  BY DEF Find, NoEvent, OnlyRun, downloadVars
<1>3. /\ Databases(x) \subseteq Names /\ Databases(x) \subseteq Key
      /\ \A k \in Databases(x) : k.name.ext = "db" /\ ~k.name.age
      /\ \A k \in Databases(x) : k.label \in {x} \cup Prefixed[x]
      /\ \A k \in Names : k.label \in {x} \cup Prefixed[x] /\ k.name.ext = "db" /\ ~k.name.age
                              => k \in Databases(x)
  BY DEF Databases, Seen, Names, DownloadOK, DownloadType, Download
<1>5. /\ key \in Databases(x)
      /\ \A j \in Databases(x) \ {key} :
             key.label < j.label \/ (key.label = j.label /\ Precedes(key, j))
  BY <1>1, DbPathIs DEF DownloadOK
<1>. HIDE DEF key
<1>6. key \in Names /\ key \in Key /\ key.label \in {x} \cup Prefixed[x]
  BY <1>3, <1>5
<1>7. key.label \in AppLabels
  <2>1. \E f \in dest : f.key = key
    BY <1>6 DEF Names
  <2>2. FileOf(key).key = key
    BY <2>1 DEF FileOf
  <2>. QED  BY <1>1, <2>2 DEF MayRead, key
<1>8. ASSUME NEW k \in Names, k.label = key.label, k.name.ext = "db", ~k.name.age
      PROVE  key.pad <= k.pad
  <2>1. k \in Databases(x)
    BY <1>3, <1>6, <1>8
  <2>2. k.pad \in Nat /\ key.pad \in Nat /\ k.label \in Nat
    BY <1>3, <1>6, <2>1, PadIs DEF Key, Labels
  <2>3. k = key \/ key.pad < k.pad \/ key.pad = k.pad
    BY <1>5, <1>8, <2>1, <2>2 DEF Precedes
  <2>. QED  BY <2>2, <2>3
<1>9. /\ run \in Run /\ run.todo = {} /\ run.product = Absent
      /\ \A f \in dest : f.cut => untidy
  BY <1>2, Settled DEF DownloadOK, CommandInv
<1>10. /\ run' \in Run /\ run'.pc = "move" /\ run'.todo = {} /\ run'.product = Absent
       /\ run'.pick = key /\ run'.clean = run.clean
  BY <1>1, <1>6, <1>9 DEF Run, key
<1>11. Names' = Names
  BY <1>2 DEF Names
<1>12. DownloadOK'
  BY <1>2 DEF DownloadOK, BucketOK, DownloadType, Covered, FetchInv, Fetched
<1>13. CommandInv'
  BY <1>2, <1>10 DEF CommandInv
<1>14. WholeInv' /\ NamesInv' /\ HeldInv' /\ InstalledIsWhole'
  BY <1>2, <1>9, <1>11 DEF WholeInv, NamesInv, HeldInv, KeysOf, InstalledIsWhole
<1>15. PickInv'
  BY <1>6, <1>7, <1>8, <1>10, <1>11 DEF PickInv
<1>16. NewestInv'
  <2>1. ASSUME NEW l \in Labels, Ready(l) PROVE Ready(l)'
    BY <1>2, <1>9, <1>10, <1>11, <2>1 DEF Ready
  <2>. QED  BY <1>2, <1>10, <2>1 DEF NewestInv
<1>. QED  BY <1>12, <1>13, <1>14, <1>15, <1>16

\* The database takes its place.
LEMMA MoveKeeps ==
    ASSUME BucketAssumption, RecoverAssumption, Inv, Move
    PROVE  Inv' /\ app'.key = run.pick
<1>. USE DEF Inv
<1>1. /\ run.pc = "move" /\ app' = FileOf(run.pick)
      /\ dest' = dest \ FileAt(dest, run.pick) /\ run' = [Idle EXCEPT !.pc = "done"]
      /\ UNCHANGED <<spent, now, bucket, temp, dl, held, untidy>>
  BY DEF Move, NoEvent
<1>2. \E f \in dest : f.key = run.pick
  BY <1>1 DEF PickInv, Names
<1>3. app' \in dest /\ app'.key = run.pick
  BY <1>1, <1>2 DEF FileOf
<1>4. dl = NoDownload /\ run.product = Absent /\ \A f \in dest : f.cut => untidy
  BY <1>1, Settled DEF CommandInv, DownloadOK
<1>5. InstalledIsWhole'
  BY <1>1, <1>3, <1>4 DEF InstalledIsWhole, PickInv
<1>6. app' \in Download
  BY <1>3 DEF DownloadOK, DownloadType
<1>7. untidy' \in BOOLEAN /\ spent' \in 0 .. MaxEvents
  BY <1>1 DEF CommandInv
<1>. QED  BY <1>1, <1>3, <1>4, <1>5, <1>6, <1>7, StopKeeps

\* The run ends without having changed a file.
LEMMA EndKeeps ==
    ASSUME BucketAssumption, RecoverAssumption, Inv,
           AlreadyThere \/ FailFind \/ FailMove \/ Crash
    PROVE  Inv'
<1>. USE DEF Inv
<1>1. /\ run' \in {Idle, [Idle EXCEPT !.pc = "done"]}
      /\ UNCHANGED <<now, bucket, dest, temp, held, app>>
  BY DEF AlreadyThere, FailFind, FailMove, Crash, OnlyRun, downloadVars
<1>2. spent' \in 0 .. MaxEvents
  <2>1. CASE AlreadyThere \/ FailFind
    BY <2>1, CountedStays DEF AlreadyThere, FailFind, Counted, CommandInv
  <2>2. CASE FailMove
    BY <2>2, CountedStays DEF FailMove, Inject, Counted, CommandInv
  <2>3. CASE Crash
    BY <2>3, CountedStays DEF Crash, Inject, Counted, CommandInv
  <2>. QED  BY <2>1, <2>2, <2>3
<1>3. /\ dl' = NoDownload /\ untidy' \in BOOLEAN
      /\ untidy \/ run.product # Absent => untidy'
  <2>1. CASE Crash
    BY <2>1 DEF Crash
  <2>2. CASE AlreadyThere \/ FailFind \/ FailMove
    <3>1. run.pc \in {"find", "move"} /\ UNCHANGED <<dl, untidy>>
      BY <2>2 DEF AlreadyThere, FailFind, FailMove, OnlyRun, downloadVars
    <3>2. dl = NoDownload /\ run.product = Absent
      BY <3>1, Settled DEF DownloadOK, CommandInv
    <3>. QED  BY <3>1, <3>2 DEF CommandInv
  <2>. QED  BY <2>1, <2>2
<1>4. InstalledIsWhole'
  BY <1>1, <1>3 DEF InstalledIsWhole
<1>5. app' \in Download \cup {Absent}
  BY <1>1 DEF CommandInv
<1>. QED  BY <1>1, <1>2, <1>3, <1>4, <1>5, StopKeeps

\* The old machine stores another backup.
LEMMA UploadKeeps ==
    ASSUME BucketAssumption, RecoverAssumption, Inv, Upload
    PROVE  Inv'
<1>. USE DEF Inv
<1>1. PICK o \in Backups : Inject("upload") /\ bucket' = WithObject(o.key, o.body)
  BY DEF Upload
<1>2. UNCHANGED <<now, dest, temp, dl, held, app, run, untidy>>
  BY DEF Upload, downloadVars
<1>3. spent' \in 0 .. MaxEvents
  BY <1>1, CountedStays DEF Inject, Counted, CommandInv
<1>4. /\ o.key \in Key /\ o.body \in Body /\ o.key.pad = Pad(o.body.time)
      /\ o.key.name.ext \in {"gz", "db"}
  BY DEF RecoverAssumption
<1>5. /\ DOMAIN bucket' = DOMAIN bucket \cup {o.key} /\ bucket'[o.key] = o.body
      /\ \A k \in DOMAIN bucket : k # o.key => bucket'[k] = bucket[k]
  BY <1>1 DEF WithObject
<1>6. DownloadOK'
  <2>1. BucketOK'
    BY <1>2, <1>4, <1>5 DEF DownloadOK, BucketOK
  <2>2. Covered'
    <3>1. Pad(o.body.time) <= o.key.pad
      BY <1>4, PadIs DEF Body
    <3>. QED  BY <1>5, <3>1 DEF DownloadOK, Covered
  <2>3. DownloadType' /\ FetchInv'
    BY <1>2, <1>5 DEF DownloadOK, DownloadType, FetchInv, Fetched
  <2>. QED  BY <2>1, <2>2, <2>3 DEF DownloadOK
<1>7. Names' = Names
  BY <1>2 DEF Names
<1>8. CommandInv'
  BY <1>2, <1>3, <1>7 DEF CommandInv, Product, Current
<1>9. NamesInv'
  BY <1>2, <1>4, <1>5, <1>7 DEF NamesInv
<1>10. HeldInv'
  BY <1>2, <1>5, <1>7 DEF HeldInv, KeysOf
<1>11. WholeInv' /\ PickInv' /\ NewestInv' /\ InstalledIsWhole'
  BY <1>2, <1>7 DEF WholeInv, PickInv, NewestInv, Ready, InstalledIsWhole
<1>. QED  BY <1>6, <1>8, <1>9, <1>10, <1>11

-----------------------------------------------------------------------------
(* The theorems.                                                           *)

\* A machine that has no data.
LEMMA InitInv ==
    ASSUME BucketAssumption, DownloadAssumption, RecoverAssumption, Init
    PROVE  Inv
<1>1. PICK some \in SUBSET Backups :
          bucket = [k \in {o.key : o \in some} |-> (CHOOSE o \in some : o.key = k).body]
  BY DEF Init
<1>2. DOMAIN bucket = {o.key : o \in some}
  BY <1>1
<1>3. ASSUME NEW k \in DOMAIN bucket
      PROVE  /\ k \in Key /\ bucket[k] \in Body /\ k.pad = Pad(bucket[k].time)
             /\ k.name.ext \in {"gz", "db"}
  <2>1. PICK o \in some : o.key = k
    BY <1>2
  <2>. DEFINE p == CHOOSE q \in some : q.key = k
  <2>2. p \in some /\ p.key = k /\ bucket[k] = p.body
    BY <1>1, <1>2, <2>1
  <2>. QED  BY <2>2 DEF RecoverAssumption
<1>4. /\ now = 0 /\ now \in Time /\ spent \in 0 .. MaxEvents
      /\ dest = {} /\ temp = {} /\ dl = NoDownload /\ held = [l \in Labels |-> Absent]
      /\ app = Absent /\ run = Idle /\ untidy = FALSE
  BY DEF Init, DownloadInit, BucketAssumption, Time
<1>5. dl \in DownloadPass /\ dl.pc = "idle"
  BY <1>4 DEF NoDownload, DownloadPass
<1>6. run \in Run /\ run.pc = "idle" /\ run.todo = {} /\ run.product = Absent
  BY <1>4 DEF Idle, Run
<1>7. DownloadOK
  <2>1. Covered
    <3>1. ASSUME NEW k \in DOMAIN bucket PROVE Pad(bucket[k].time) <= k.pad
      BY <1>3, PadIs DEF Body
    <3>. QED  BY <3>1 DEF Covered
  <2>2. BucketOK
    BY <1>3, <1>4 DEF BucketOK
  <2>3. DownloadType /\ FetchInv
    BY <1>4, <1>5 DEF DownloadType, FetchInv
  <2>. QED  BY <2>1, <2>2, <2>3 DEF DownloadOK
<1>8. Names = {}
  BY <1>4 DEF Names
<1>9. CommandInv
  BY <1>4, <1>5, <1>6 DEF CommandInv
<1>10. NamesInv
  BY <1>3, <1>4, <1>8 DEF NamesInv
<1>11. WholeInv /\ HeldInv /\ PickInv /\ NewestInv /\ InstalledIsWhole
  BY <1>4, <1>5, <1>6, <1>8 DEF WholeInv, HeldInv, PickInv, NewestInv, InstalledIsWhole
<1>. QED  BY <1>7, <1>9, <1>10, <1>11 DEF Inv

\* Every step keeps the invariant.
LEMMA StepKeeps ==
    ASSUME BucketAssumption, DownloadAssumption, RecoverAssumption, Inv, [Next]_vars
    PROVE  Inv'
<1>1. CASE FailStart
  <2>1. spent' \in 0 .. MaxEvents
    BY <1>1, CountedStays DEF FailStart, Inject, Counted, Inv, CommandInv
  <2>. QED  BY <1>1, <2>1, RestKeeps DEF FailStart, OnlyRun, downloadVars
<1>2. CASE UNCHANGED vars
  BY <1>2, RestKeeps DEF vars, downloadVars, Inv, CommandInv
<1>. QED  BY <1>1, <1>2, StartKeeps, PassKeeps, MakeKeeps, MadeKeeps, FailedKeeps,
          EndMakingKeeps, FindKeeps, MoveKeeps, EndKeeps, UploadKeeps DEF Next, Work

\* The invariant of the command: what is still to be made, what the bucket
\* listed, and which files may be cut.
THEOREM Inductive == Spec => []Inv
<1>. USE BucketAssumption, DownloadAssumption, RecoverAssumption
<1>1. Init => Inv
  BY InitInv
<1>2. Inv /\ [Next]_vars => Inv'
  BY StepKeeps
<1>. QED  BY <1>1, <1>2, PTL DEF Spec

\* Types, and that the parts of a run follow one another.
THEOREM TypeCorrect == Spec => []TypeOK
<1>1. Inv => TypeOK
  BY DEF Inv, DownloadOK, BucketOK, CommandInv, TypeOK
<1>. QED  BY <1>1, Inductive, PTL

\* What is installed is a database of the application, and a cut one only if a
\* cut file was left behind.
THEOREM InstalledWhole == Spec => []InstalledIsWhole
<1>1. Inv => InstalledIsWhole
  BY DEF Inv
<1>. QED  BY <1>1, Inductive, PTL

\* A run without an error installs the newest backup that was listed.
THEOREM NewestInstalled == Spec => InstallsNewest
<1>. USE BucketAssumption, DownloadAssumption, RecoverAssumption
<1>1. ASSUME Inv, Next, app' # app, run.clean
      PROVE  held[app'.key.label] # Absent /\ app'.key.pad <= held[app'.key.label]
  <2>. CommandInv /\ NamesInv /\ HeldInv /\ PickInv /\ NewestInv
    BY <1>1 DEF Inv
  <2>1. Move
    BY <1>1 DEF Next, Work, Start, FailStart, DownloadBackups, Make, FailMake, Made, Spoil,
          EndMaking, AlreadyThere, Find, FailFind, FailMove, Crash, Upload, OnlyRun
  <2>2. app'.key = run.pick /\ run.pc = "move"
    BY <1>1, <2>1, MoveKeeps DEF Move
  <2>3. run.pick \in Names /\ run.pick.label \in Labels
    BY <2>2 DEF PickInv, RecoverAssumption
  <2>4. held[run.pick.label] # Absent
    BY <2>3 DEF HeldInv
  <2>5. dl.todo = {} /\ run.todo = {}
    BY <2>2 DEF CommandInv, NoDownload
  <2>6. Ready(run.pick.label)
    BY <1>1, <2>2, <2>3, <2>4, <2>5 DEF NewestInv
  <2>7. PICK k \in Names : /\ k.label = run.pick.label /\ k.pad = held[run.pick.label]
                           /\ ~k.name.age /\ k.name.ext # "gz"
    BY <2>2, <2>5, <2>6 DEF Ready
  <2>8. run.pick.pad <= k.pad
    BY <2>2, <2>7 DEF PickInv, NamesInv
  <2>. QED  BY <2>2, <2>4, <2>7, <2>8
<1>2. Inv /\ [Next]_vars =>
          [app' # app /\ run.clean =>
              /\ held[app'.key.label] # Absent
              /\ app'.key.pad <= held[app'.key.label]]_vars
  BY <1>1 DEF vars
<1>. QED  BY <1>2, Inductive, PTL DEF Spec, InstallsNewest

-----------------------------------------------------------------------------
(* A clean run.                                                            *)

\* What a file may have been made of, in one step or in two.
Aged(k) == [k EXCEPT !.name.age = TRUE]
Zipped(k) == [k EXCEPT !.name.ext = "gz"]
Origins(k) ==
    {Aged(k)} \cup (IF k.name.ext = "db" THEN {Zipped(k), Aged(Zipped(k))} ELSE {})

\* A cut file is never a download, and one it may be made of again is there: no
\* step takes an original away.  The database about to be moved is one.
OriginalsInv ==
    /\ \A f \in dest : f.cut => ~f.key.name.age /\ Origins(f.key) \cap Names # {}
    /\ run.pc = "move" => run.pick.name.ext = "db" /\ ~run.pick.name.age

\* In a run without an error every cut file is still to be made again, and none
\* is left when that is over.
RemadeInv ==
    run.clean =>
        \A f \in dest : f.cut =>
            /\ run.pc \notin {"find", "move"}
            /\ run.pc \in {"decrypt", "decompress"} =>
                   \E o \in Origins(f.key) \cap Names :
                       /\ o.name.age => o \in run.todo
                       /\ run.pc = "decompress" => o \in run.todo

CleanInv == OriginalsInv /\ RemadeInv

\* A key is what it is made of.
LEMMA SameKey ==
    ASSUME NEW j \in Key, NEW k \in Key, j.label = k.label, j.pad = k.pad,
           j.name.base = k.name.base, j.name.ext = k.name.ext, j.name.age = k.name.age
    PROVE  j = k
<1>1. j.name \in Name /\ k.name \in Name
  BY DEF Key
<1>2. j.name = k.name
  BY <1>1 DEF Name
<1>. QED  BY <1>2 DEF Key

LEMMA AgedIs ==
    ASSUME NEW k \in Key
    PROVE  /\ Aged(k) \in Key /\ Aged(k).label = k.label /\ Aged(k).pad = k.pad
           /\ Aged(k).name.base = k.name.base /\ Aged(k).name.ext = k.name.ext
           /\ Aged(k).name.age = TRUE
<1>. DEFINE a == Aged(k)
<1>1. k.name \in Name
  BY DEF Key
<1>2. a \in Key /\ a.label = k.label /\ a.pad = k.pad /\ a.name = [k.name EXCEPT !.age = TRUE]
  BY DEF Aged, Key, Name
<1>. HIDE DEF a
<1>3. a.name.base = k.name.base /\ a.name.ext = k.name.ext /\ a.name.age = TRUE
  BY <1>1, <1>2 DEF Name
<1>. QED  BY <1>2, <1>3 DEF a

LEMMA ZippedIs ==
    ASSUME NEW k \in Key
    PROVE  /\ Zipped(k) \in Key /\ Zipped(k).label = k.label /\ Zipped(k).pad = k.pad
           /\ Zipped(k).name.base = k.name.base /\ Zipped(k).name.ext = "gz"
           /\ Zipped(k).name.age = k.name.age
<1>. DEFINE z == Zipped(k)
<1>1. k.name \in Name
  BY DEF Key
<1>2. z \in Key /\ z.label = k.label /\ z.pad = k.pad /\ z.name = [k.name EXCEPT !.ext = "gz"]
  BY DEF Zipped, Key, Name, Exts
<1>. HIDE DEF z
<1>3. z.name.base = k.name.base /\ z.name.ext = "gz" /\ z.name.age = k.name.age
  BY <1>1, <1>2 DEF Name
<1>. QED  BY <1>2, <1>3 DEF z

\* Of which keys a key is an origin.
LEMMA OriginIs ==
    ASSUME NEW k \in Key, NEW o \in Key, ~k.name.age
    PROVE  o \in Origins(k) <=>
               /\ o.label = k.label /\ o.pad = k.pad /\ o.name.base = k.name.base
               /\ \/ o.name.age /\ o.name.ext = k.name.ext
                  \/ o.name.ext = "gz" /\ k.name.ext = "db"
<1>1. k.name.age = FALSE /\ o.name.age \in BOOLEAN
  BY DEF Key, Name
<1>2. ASSUME NEW j \in Key
      PROVE  o = j <=> /\ o.label = j.label /\ o.pad = j.pad /\ o.name.base = j.name.base
                       /\ o.name.ext = j.name.ext /\ o.name.age = j.name.age
  <2>1. ASSUME o.label = j.label, o.pad = j.pad, o.name.base = j.name.base,
               o.name.ext = j.name.ext, o.name.age = j.name.age
        PROVE  o = j
    BY <2>1, SameKey
  <2>. QED  BY <2>1
<1>. DEFINE a == Aged(k)
            z == Zipped(k)
            b == Aged(Zipped(k))
<1>3. /\ a \in Key /\ a.label = k.label /\ a.pad = k.pad /\ a.name.base = k.name.base
      /\ a.name.ext = k.name.ext /\ a.name.age = TRUE
  BY AgedIs
<1>4. /\ z \in Key /\ z.label = k.label /\ z.pad = k.pad /\ z.name.base = k.name.base
      /\ z.name.ext = "gz" /\ z.name.age = FALSE
  BY <1>1, ZippedIs
<1>5. /\ b \in Key /\ b.label = k.label /\ b.pad = k.pad /\ b.name.base = k.name.base
      /\ b.name.ext = "gz" /\ b.name.age = TRUE
  <2>1. /\ b \in Key /\ b.label = z.label /\ b.pad = z.pad /\ b.name.base = z.name.base
        /\ b.name.ext = z.name.ext /\ b.name.age = TRUE
    BY <1>4, AgedIs
  <2>. QED  BY <1>4, <2>1
<1>6. o \in Origins(k) <=> o = a \/ (k.name.ext = "db" /\ (o = z \/ o = b))
  BY DEF Origins
<1>. HIDE DEF a, z, b
<1>7. o = a <=> /\ o.label = k.label /\ o.pad = k.pad /\ o.name.base = k.name.base
                /\ o.name.ext = k.name.ext /\ o.name.age = TRUE
  BY <1>2, <1>3
<1>8. o = z <=> /\ o.label = k.label /\ o.pad = k.pad /\ o.name.base = k.name.base
                /\ o.name.ext = "gz" /\ o.name.age = FALSE
  BY <1>2, <1>4
<1>9. o = b <=> /\ o.label = k.label /\ o.pad = k.pad /\ o.name.base = k.name.base
                /\ o.name.ext = "gz" /\ o.name.age = TRUE
  BY <1>2, <1>5
<1>. QED  BY <1>1, <1>6, <1>7, <1>8, <1>9

\* The file in hand is an origin of its product, whatever is made of the file is
\* the product or made of that, and only what is decrypted is made into an origin.
LEMMA ProductOrigins ==
    ASSUME BucketAssumption, Inv, run.todo # {}
    PROVE  /\ Current \in Origins(Product)
           /\ \A k \in Key : ~k.name.age /\ Current \in Origins(k) =>
                  k = Product \/ (run.pc = "decrypt" /\ Product \in Origins(k))
           /\ \A k \in Key : ~k.name.age /\ Product \in Origins(k) => Current \in Origins(k)
<1>. USE DEF Inv
<1>1. /\ Current \in run.todo /\ Current \in Key /\ Product \in Key /\ ~Product.name.age
      /\ run.pc \in {"decrypt", "decompress"}
  BY CurrentIs DEF DownloadOK, CommandInv
<1>2. /\ Current.name.age = (run.pc = "decrypt")
      /\ run.pc = "decompress" => Current.name.ext = "gz"
  BY <1>1 DEF CommandInv
<1>. DEFINE c == Current
            p == Product
<1>3. /\ p.label = c.label /\ p.pad = c.pad /\ p.name.base = c.name.base
      /\ p.name.ext = (IF run.pc = "decrypt" THEN c.name.ext ELSE "db")
  <2>1. c \in Key /\ c.name \in Name
    BY <1>1 DEF Key
  <2>. HIDE DEF c
  <2>2. p = IF run.pc = "decrypt" THEN [c EXCEPT !.name.age = FALSE]
                                  ELSE [c EXCEPT !.name.ext = "db"]
    BY DEF Product, c
  <2>. QED  BY <2>1, <2>2 DEF Key, Name
<1>. HIDE DEF c, p
<1>4. /\ c \in Key /\ p \in Key /\ ~p.name.age /\ c.name.age = (run.pc = "decrypt")
      /\ run.pc = "decompress" => c.name.ext = "gz"
  BY <1>1, <1>2 DEF c, p
<1>5. c \in Origins(p)
  BY <1>1, <1>3, <1>4, OriginIs
<1>6. ASSUME NEW k \in Key, ~k.name.age, c \in Origins(k)
      PROVE  k = p \/ (run.pc = "decrypt" /\ p \in Origins(k))
  <2>1. /\ c.label = k.label /\ c.pad = k.pad /\ c.name.base = k.name.base
        /\ (c.name.age /\ c.name.ext = k.name.ext) \/ (c.name.ext = "gz" /\ k.name.ext = "db")
    BY <1>4, <1>6, OriginIs
  <2>2. k.name.ext = p.name.ext => k = p
    <3>1. k.name \in Name /\ p.name \in Name
      BY <1>4 DEF Key
    <3>2. k.name.age = FALSE /\ p.name.age = FALSE
      BY <1>4, <1>6, <3>1 DEF Name
    <3>3. k.name.ext = p.name.ext => k.name = p.name
      BY <1>3, <2>1, <3>1, <3>2 DEF Name
    <3>. QED  BY <1>3, <1>4, <2>1, <3>3 DEF Key
  <2>3. k.name.ext # p.name.ext => run.pc = "decrypt" /\ p.name.ext = "gz" /\ k.name.ext = "db"
    BY <1>1, <1>3, <1>4, <2>1
  <2>. QED  BY <1>3, <1>4, <1>6, <2>1, <2>2, <2>3, OriginIs
<1>7. ASSUME NEW k \in Key, ~k.name.age, p \in Origins(k)
      PROVE  c \in Origins(k)
  <2>1. /\ p.label = k.label /\ p.pad = k.pad /\ p.name.base = k.name.base
        /\ p.name.ext = "gz" /\ k.name.ext = "db"
    BY <1>4, <1>7, OriginIs
  <2>2. c.name.age /\ c.name.ext = "gz"
    BY <1>1, <1>3, <1>4, <2>1
  <2>3. c.label = k.label /\ c.pad = k.pad /\ c.name.base = k.name.base
    BY <1>3, <2>1
  <2>. QED  BY <1>4, <1>7, <2>1, <2>2, <2>3, OriginIs
<1>. QED  BY <1>5, <1>6, <1>7 DEF c, p

\* The file in hand may be made of the originals it has, and they stay.
LEMMA MakeRemakes ==
    ASSUME BucketAssumption, RecoverAssumption, Inv, CleanInv, Make
    PROVE  CleanInv'
<1>. USE DEF Inv, CleanInv
<1>1. /\ run.pc \in {"decrypt", "decompress"} /\ run.todo # {}
      /\ run' = [run EXCEPT !.product = Product] /\ dest' = With(Product, TRUE)
  BY DEF Make, Making
<1>2. /\ Current \in run.todo /\ Current \in Names /\ Product \in Key /\ ~Product.name.age
  BY <1>1, CurrentIs DEF DownloadOK
<1>3. /\ Names' = Names \cup {Product}
      /\ \A f \in dest' : (f \in dest /\ f.key # Product) \/ f.key = Product
  BY <1>1, <1>2, WithIs DEF DownloadOK
<1>4. run'.pc = run.pc /\ run'.todo = run.todo /\ run'.clean = run.clean
  BY <1>1 DEF CommandInv, Run
<1>5. Current \in Origins(Product)
  BY <1>1, ProductOrigins
<1>6. OriginalsInv'
  <2>1. ASSUME NEW f \in dest', f.cut
        PROVE  ~f.key.name.age /\ Origins(f.key) \cap Names' # {}
    <3>1. CASE f.key = Product
      BY <1>2, <1>3, <1>5, <3>1
    <3>2. CASE f \in dest
      BY <1>3, <2>1, <3>2 DEF OriginalsInv
    <3>. QED  BY <1>3, <3>1, <3>2
  <2>. QED  BY <1>1, <1>4, <2>1 DEF OriginalsInv
<1>7. RemadeInv'
  <2>. SUFFICES ASSUME run.clean, NEW f \in dest', f.cut
                PROVE  \E o \in Origins(f.key) \cap Names' :
                           /\ o.name.age => o \in run.todo
                           /\ run.pc = "decompress" => o \in run.todo
    BY <1>1, <1>4 DEF RemadeInv
  <2>1. CASE f.key = Product
    BY <1>2, <1>3, <1>5, <2>1
  <2>2. CASE f \in dest
    BY <1>1, <1>3, <2>2 DEF RemadeInv
  <2>. QED  BY <1>3, <2>1, <2>2
<1>. QED  BY <1>6, <1>7

\* What is complete need not be made again; what else the file in hand is an
\* origin of may now be made of its product.
LEMMA MadeRemakes ==
    ASSUME BucketAssumption, RecoverAssumption, Inv, CleanInv, Made
    PROVE  CleanInv'
<1>. USE DEF Inv, CleanInv
<1>1. /\ run.pc \in {"decrypt", "decompress"} /\ run.todo # {}
      /\ Leave(TRUE) /\ dest' = With(Product, FALSE)
  BY DEF Made, Making, CommandInv
<1>2. /\ Current \in run.todo /\ Current \in Names /\ Product \in Key /\ ~Product.name.age
  BY <1>1, CurrentIs DEF DownloadOK
<1>3. /\ Names' = Names \cup {Product}
      /\ \A f \in dest' : f.cut => f \in dest /\ f.key # Product
  BY <1>1, <1>2, WithIs DEF DownloadOK
<1>4. run'.pc = run.pc /\ run'.todo = run.todo \ {Current} /\ run'.clean = run.clean
  BY <1>1, Leaves DEF CommandInv, Run
<1>5. OriginalsInv'
  <2>1. ASSUME NEW f \in dest', f.cut
        PROVE  ~f.key.name.age /\ Origins(f.key) \cap Names' # {}
    BY <1>3, <2>1 DEF OriginalsInv
  <2>. QED  BY <1>1, <1>4, <2>1 DEF OriginalsInv
<1>6. RemadeInv'
  <2>. SUFFICES ASSUME run.clean, NEW f \in dest', f.cut
                PROVE  \E o \in Origins(f.key) \cap Names' :
                           /\ o.name.age => o \in run.todo \ {Current}
                           /\ run.pc = "decompress" => o \in run.todo \ {Current}
    BY <1>1, <1>4 DEF RemadeInv
  <2>1. /\ f \in dest /\ f.key # Product /\ f.key \in Key /\ ~f.key.name.age
    BY <1>3 DEF OriginalsInv, DownloadOK, DownloadType, Download
  <2>2. PICK o \in Origins(f.key) \cap Names :
                /\ o.name.age => o \in run.todo
                /\ run.pc = "decompress" => o \in run.todo
    BY <1>1, <2>1 DEF RemadeInv
  <2>3. CASE o # Current
    BY <1>3, <2>2, <2>3
  <2>4. CASE o = Current
    <3>1. run.pc = "decrypt" /\ Product \in Origins(f.key)
      BY <1>1, <2>1, <2>2, <2>4, ProductOrigins
    <3>. QED  BY <1>2, <1>3, <3>1
  <2>. QED  BY <2>3, <2>4
<1>. QED  BY <1>5, <1>6

\* The product of a failed copy may go: what was to be made of it may be made of
\* its original.
LEMMA FailedRemakes ==
    ASSUME BucketAssumption, RecoverAssumption, Inv, CleanInv, FailMake \/ Spoil
    PROVE  CleanInv'
<1>. USE DEF Inv, CleanInv
<1>1. /\ run.pc \in {"decrypt", "decompress"} /\ run.todo # {} /\ Leave(FALSE)
  BY DEF FailMake, Spoil, Making, CommandInv
<1>2. /\ Current \in Names /\ Current \in Key /\ Product \in Key /\ Current # Product
  BY <1>1, CurrentIs DEF DownloadOK
<1>3. dest' \subseteq dest /\ \A f \in dest : f.key # Product => f \in dest'
  BY DEF FailMake, Spoil, OnlyRun, downloadVars, FileAt, CommandInv
<1>4. run'.pc = run.pc /\ ~run'.clean
  BY <1>1, Leaves DEF CommandInv
<1>5. \A k \in Names : k # Product => k \in Names'
  BY <1>3 DEF Names
<1>6. ASSUME NEW f \in dest', f.cut
      PROVE  ~f.key.name.age /\ Origins(f.key) \cap Names' # {}
  <2>1. f.key \in Key /\ ~f.key.name.age
    BY <1>3, <1>6 DEF OriginalsInv, DownloadOK, DownloadType, Download
  <2>2. PICK o \in Origins(f.key) \cap Names : TRUE
    BY <1>3, <1>6 DEF OriginalsInv
  <2>3. CASE o # Product
    BY <1>5, <2>1, <2>2, <2>3
  <2>4. CASE o = Product
    <3>1. Current \in Origins(f.key)
      BY <1>1, <2>1, <2>2, <2>4, ProductOrigins
    <3>. QED  BY <1>2, <1>5, <2>1, <3>1
  <2>. QED  BY <2>3, <2>4
<1>. QED  BY <1>1, <1>4, <1>6 DEF OriginalsInv, RemadeInv

\* When everything is decrypted, what a cut file is made of is compressed; when
\* everything is decompressed, there is none.
LEMMA EndMakingRemakes ==
    ASSUME BucketAssumption, RecoverAssumption, Inv, CleanInv, EndMaking
    PROVE  CleanInv'
<1>. USE DEF Inv, CleanInv
<1>1. /\ run.pc \in {"decrypt", "decompress"} /\ run.todo = {} /\ dest' = dest
      /\ run' = IF run.pc = "decrypt"
                THEN [run EXCEPT !.pc = "decompress", !.todo = Compressed(dest)]
                ELSE [run EXCEPT !.pc = "find"]
  BY DEF EndMaking, Making, OnlyRun, downloadVars
<1>2. run \in Run /\ Names' = Names
  BY <1>1 DEF CommandInv, Names
<1>3. run'.pc # "move" /\ run'.clean = run.clean
  BY <1>1, <1>2 DEF Run
<1>4. OriginalsInv'
  BY <1>1, <1>2, <1>3 DEF OriginalsInv
<1>5. CASE run.pc = "decrypt"
  <2>1. run'.pc = "decompress" /\ run'.todo = Compressed(dest)
    BY <1>1, <1>2, <1>5 DEF Run
  <2>2. ASSUME run.clean, NEW f \in dest, f.cut
        PROVE  \E o \in Origins(f.key) \cap Names : ~o.name.age /\ o \in Compressed(dest)
    <3>1. PICK o \in Origins(f.key) \cap Names : ~o.name.age
      BY <1>1, <1>5, <2>2 DEF RemadeInv
    <3>2. f.key \in Key /\ ~f.key.name.age /\ o \in Key
      BY <2>2 DEF OriginalsInv, Names, DownloadOK, DownloadType, Download
    <3>3. o.name.ext = "gz"
      BY <3>1, <3>2, OriginIs
    <3>. QED  BY <3>1, <3>3 DEF Names, Compressed
  <2>3. RemadeInv'
    BY <1>1, <1>2, <1>3, <2>1, <2>2 DEF RemadeInv
  <2>. QED  BY <1>4, <2>3
<1>6. CASE run.pc = "decompress"
  <2>1. run.clean => \A f \in dest : ~f.cut
    BY <1>1, <1>6 DEF RemadeInv
  <2>2. RemadeInv'
    BY <1>1, <1>3, <2>1 DEF RemadeInv
  <2>. QED  BY <1>4, <2>2
<1>. QED  BY <1>1, <1>5, <1>6

\* The pass brings no cut file, and all that is encrypted is decrypted after it.
LEMMA PassRemakes ==
    ASSUME BucketAssumption, DownloadAssumption, RecoverAssumption, Inv, CleanInv,
           DownloadBackups
    PROVE  CleanInv'
<1>. USE DEF Inv, CleanInv
<1>. DEFINE ends == dl'.pc = "idle"
<1>1. PICK l \in Labels : DownloadEntry(l)
  BY DEF DownloadBackups, DownloadStep
<1>2. /\ run.pc = "download"
      /\ run' = [run EXCEPT !.pc = IF ends THEN "decrypt" ELSE @,
                            !.todo = IF ends THEN Encrypted(dest') ELSE @,
                            !.clean = run.clean /\ UNCHANGED spent]
  BY DEF DownloadBackups
<1>3. run \in Run
  BY DEF CommandInv
<1>4. /\ run'.pc = (IF ends THEN "decrypt" ELSE "download")
      /\ ends => run'.todo = Encrypted(dest')
  BY <1>2, <1>3 DEF Run
<1>5. Names \subseteq Names'
  BY <1>1, PassNames
<1>6. \A f \in dest' : f.cut => f \in dest
  BY <1>1, EntryKeeps DEF FoundHere, FileArrives
<1>7. OriginalsInv'
  BY <1>4, <1>5, <1>6 DEF OriginalsInv
<1>8. \A k \in Names' : k.name.age => k \in Encrypted(dest')
  BY DEF Names, Encrypted
<1>9. RemadeInv'
  <2>. SUFFICES ASSUME ends, NEW f \in dest', f.cut
                PROVE  \E o \in Origins(f.key) \cap Names' :
                           o.name.age => o \in Encrypted(dest')
    BY <1>4 DEF RemadeInv
  <2>. QED  BY <1>7, <1>8 DEF OriginalsInv
<1>. QED  BY <1>7, <1>9

\* The database that is picked is one, and no original.
LEMMA FindRemakes ==
    ASSUME BucketAssumption, DownloadAssumption, RecoverAssumption, Inv, CleanInv, Find
    PROVE  CleanInv'
<1>. USE DEF Inv, CleanInv
<1>1. PICK x \in Labels : /\ Databases(x) # {}
                          /\ run' = [run EXCEPT !.pc = "move", !.pick = DbPath(x)]
  <2>1. PICK k \in DbPaths : run' = [run EXCEPT !.pc = "move", !.pick = k]
    BY DEF Find
  <2>2. PICK x \in {y \in Labels : Databases(y) # {}} : k = DbPath(x)
    BY DEF DbPaths
  <2>. QED  BY <2>1, <2>2
<1>2. run.pc = "find" /\ dest' = dest /\ run \in Run
  BY DEF Find, OnlyRun, downloadVars, CommandInv
<1>3. DbPath(x) \in Databases(x)
  BY <1>1, DbPathIs DEF DownloadOK
<1>4. run'.pc = "move" /\ run'.pick = DbPath(x) /\ run'.clean = run.clean /\ Names' = Names
  BY <1>1, <1>2 DEF Run, Names
<1>5. run'.pick.name.ext = "db" /\ ~run'.pick.name.age
  BY <1>3, <1>4 DEF Databases
<1>6. OriginalsInv'
  BY <1>2, <1>4, <1>5 DEF OriginalsInv
<1>7. RemadeInv'
  BY <1>2, <1>4 DEF RemadeInv
<1>. QED  BY <1>6, <1>7

\* What is moved away is not an original.
LEMMA MoveRemakes ==
    ASSUME BucketAssumption, RecoverAssumption, Inv, CleanInv, Move
    PROVE  CleanInv'
<1>. USE DEF Inv, CleanInv
<1>1. /\ run.pc = "move" /\ dest' = dest \ FileAt(dest, run.pick)
      /\ run' = [Idle EXCEPT !.pc = "done"]
  BY DEF Move
<1>2. run'.pc = "done"
  BY <1>1 DEF Idle
<1>3. run.pick.name.ext = "db" /\ ~run.pick.name.age
  BY <1>1 DEF OriginalsInv
<1>4. ASSUME NEW f \in dest', f.cut
      PROVE  ~f.key.name.age /\ Origins(f.key) \cap Names' # {}
  <2>1. f.key \in Key /\ ~f.key.name.age
    BY <1>1, <1>4 DEF OriginalsInv, DownloadOK, DownloadType, Download
  <2>2. PICK o \in Origins(f.key) \cap Names : TRUE
    BY <1>1, <1>4 DEF OriginalsInv
  <2>3. o \in Key
    BY <2>2 DEF Names, DownloadOK, DownloadType, Download
  <2>4. o # run.pick
    BY <1>3, <2>1, <2>2, <2>3, OriginIs
  <2>5. o \in Names'
    BY <1>1, <2>2, <2>4 DEF Names, FileAt
  <2>. QED  BY <2>1, <2>2, <2>5
<1>. QED  BY <1>2, <1>4 DEF OriginalsInv, RemadeInv

\* A run that begins, ends or breaks off leaves the files alone.
LEMMA RunRemakes ==
    ASSUME BucketAssumption, RecoverAssumption, Inv, CleanInv,
           \/ Start \/ FailStart \/ Upload \/ UNCHANGED vars
           \/ AlreadyThere \/ FailFind \/ FailMove \/ Crash
    PROVE  CleanInv'
<1>. USE DEF Inv, CleanInv
<1>1. dest' = dest /\ Names' = Names
  BY DEF Start, FailStart, Upload, vars, AlreadyThere, FailFind, FailMove, Crash, OnlyRun,
         downloadVars, Names
<1>2. run' = run \/ run'.pc \in {"idle", "done", "download"}
  BY DEF Start, FailStart, Upload, vars, AlreadyThere, FailFind, FailMove, Crash, Idle
<1>. QED  BY <1>1, <1>2 DEF OriginalsInv, RemadeInv

\* Every step keeps both invariants.
LEMMA StepRemakes ==
    ASSUME BucketAssumption, DownloadAssumption, RecoverAssumption, Inv, CleanInv,
           [Next]_vars
    PROVE  Inv' /\ CleanInv'
BY StepKeeps, PassRemakes, MakeRemakes, MadeRemakes, FailedRemakes, EndMakingRemakes,
   FindRemakes, MoveRemakes, RunRemakes DEF Next, Work

THEOREM CleanInductive == Spec => [](Inv /\ CleanInv)
<1>. USE BucketAssumption, DownloadAssumption, RecoverAssumption
<1>1. Init => Inv /\ CleanInv
  <2>1. Init => CleanInv
    BY DEF Init, DownloadInit, Idle, CleanInv, OriginalsInv, RemadeInv
  <2>. QED  BY <2>1, InitInv
<1>2. (Inv /\ CleanInv) /\ [Next]_vars => (Inv /\ CleanInv)'
  BY StepRemakes
<1>. QED  BY <1>1, <1>2, PTL DEF Spec

-----------------------------------------------------------------------------
(* Nothing is lost.                                                        *)

\* A backup that any file is named after has a complete file: what a cut one is
\* made of is there, and that is complete, or what it is made of in turn.
NamedIsHeld ==
    \A k \in Names : \E f \in dest : ~f.cut /\ f.key.label = k.label /\ f.key.pad = k.pad

LEMMA CutIsHeld == ASSUME BucketAssumption, Inv, CleanInv PROVE NamedIsHeld
<1>. USE DEF Inv, CleanInv
<1>. SUFFICES ASSUME NEW k \in Names
              PROVE  \E f \in dest : ~f.cut /\ f.key.label = k.label /\ f.key.pad = k.pad
  BY DEF NamedIsHeld
<1>1. \A f \in dest : f.key \in Key
  BY DEF DownloadOK, DownloadType, Download
<1>2. PICK f \in dest : f.key = k
  BY DEF Names
<1>3. ASSUME NEW x \in dest, x.cut
      PROVE  \E o \in dest : /\ o.key.label = x.key.label /\ o.key.pad = x.key.pad
                             /\ o.cut => /\ x.key.name.ext = "db" /\ o.key.name.ext = "gz"
  <2>1. ~x.key.name.age /\ Origins(x.key) \cap Names # {}
    BY <1>3 DEF OriginalsInv
  <2>2. PICK o \in dest : o.key \in Origins(x.key)
    BY <2>1 DEF Names
  <2>3. o.cut => ~o.key.name.age
    BY DEF OriginalsInv
  <2>. QED  BY <1>1, <2>1, <2>2, <2>3, OriginIs
<1>4. CASE ~f.cut
  BY <1>2, <1>4
<1>5. CASE f.cut
  <2>1. PICK o \in dest : /\ o.key.label = k.label /\ o.key.pad = k.pad
                          /\ o.cut => o.key.name.ext = "gz"
    BY <1>2, <1>3, <1>5
  <2>2. CASE o.cut
    <3>1. PICK p \in dest : /\ p.key.label = o.key.label /\ p.key.pad = o.key.pad
                            /\ p.cut => o.key.name.ext = "db"
      BY <1>3, <2>2
    <3>. QED  BY <2>1, <2>2, <3>1
  <2>. QED  BY <2>1, <2>2
<1>. QED  BY <1>4, <1>5

\* A step that takes a name away leaves another of that backup, or moves the file.
LEMMA NamesStay ==
    ASSUME BucketAssumption, DownloadAssumption, RecoverAssumption, Inv, Next, NEW k \in Names
    PROVE  \/ \E j \in Names' : j.label = k.label /\ j.pad = k.pad
           \/ Move /\ k = run.pick
<1>. USE DEF Inv
<1>1. CASE DownloadBackups
  <2>1. PICK l \in Labels : DownloadEntry(l)
    BY <1>1 DEF DownloadBackups, DownloadStep
  <2>. QED  BY <2>1, PassNames
<1>2. CASE Make \/ Made
  <2>1. run.todo # {} /\ (run.product # Absent => run.product = Product)
    BY <1>2 DEF Make, Made, CommandInv
  <2>2. Product \in Key /\ Current \in Names
    BY <2>1, CurrentIs DEF DownloadOK
  <2>3. PICK cut \in BOOLEAN : dest' = With(Product, cut)
    BY <1>2, <2>1 DEF Make, Made
  <2>4. Names' = Names \cup {Product}
    BY <2>2, <2>3, WithIs DEF DownloadOK
  <2>. QED  BY <2>4
<1>3. CASE Spoil \/ FailMake
  <2>1. run.todo # {} /\ (run.product # Absent => run.product = Product)
    BY <1>3 DEF Spoil, FailMake, CommandInv
  <2>2. /\ Current \in Names /\ Current # Product
        /\ Product.label = Current.label /\ Product.pad = Current.pad
    BY <2>1, CurrentIs DEF DownloadOK
  <2>3. \A f \in dest : f.key # Product => f \in dest'
    BY <1>3, <2>1 DEF Spoil, FailMake, OnlyRun, downloadVars, FileAt
  <2>4. \A j \in Names : j # Product => j \in Names'
    BY <2>3 DEF Names
  <2>. QED  BY <2>2, <2>4
<1>4. CASE Move
  <2>1. dest' = dest \ FileAt(dest, run.pick)
    BY <1>4 DEF Move
  <2>2. \A j \in Names : j # run.pick => j \in Names'
    BY <2>1 DEF Names, FileAt
  <2>. QED  BY <1>4, <2>2
<1>5. CASE \/ Start \/ FailStart \/ EndMaking \/ AlreadyThere \/ Find \/ FailFind \/ FailMove
           \/ Crash \/ Upload
  <2>1. dest' = dest
    BY <1>5 DEF Start, FailStart, EndMaking, AlreadyThere, Find, FailFind, FailMove, Crash,
                Upload, OnlyRun, downloadVars
  <2>. QED  BY <2>1 DEF Names
<1>. QED  BY <1>1, <1>2, <1>3, <1>4, <1>5 DEF Next, Work

\* Only an app.db that does not read is replaced.
LEMMA AppStays ==
    ASSUME Inv, Next
    PROVE  app' = app \/ (Move /\ (app # Absent => app.cut))
<1>1. CASE Move
  BY <1>1 DEF Move, AppReads, Reads, Inv, InstalledIsWhole
<1>2. CASE ~Move
  BY <1>2 DEF Next, Work, Start, FailStart, DownloadBackups, Make, FailMake, Made, Spoil,
        EndMaking, AlreadyThere, Find, FailFind, FailMove, Crash, Upload, OnlyRun
<1>. QED  BY <1>1, <1>2

\* No backup that arrived is lost.
THEOREM NothingIsLost == Spec => NothingLost
<1>. USE BucketAssumption, DownloadAssumption, RecoverAssumption
<1>1. Inv /\ CleanInv => NamedIsHeld
  BY CutIsHeld
<1>2. ASSUME Inv, NamedIsHeld', Next
      PROVE  HeldBackups \subseteq HeldBackups'
  <2>. SUFFICES ASSUME NEW f \in Whole
                PROVE  \E g \in Whole' : g.key.label = f.key.label /\ g.key.pad = f.key.pad
    BY DEF HeldBackups
  <2>1. app' = app \/ (Move /\ (app # Absent => app.cut))
    BY <1>2, AppStays
  <2>2. CASE f \in dest /\ ~f.cut
    <3>1. f.key \in Names
      BY <2>2 DEF Names
    <3>2. CASE \E j \in Names' : j.label = f.key.label /\ j.pad = f.key.pad
      <4>1. \E g \in dest' : ~g.cut /\ g.key.label = f.key.label /\ g.key.pad = f.key.pad
        BY <1>2, <3>2 DEF NamedIsHeld
      <4>. QED  BY <4>1 DEF Whole
    <3>3. CASE Move /\ f.key = run.pick
      <4>1. app' \in dest /\ app'.key = f.key
        <5>1. app' = FileOf(run.pick)
          BY <3>3 DEF Move
        <5>. QED  BY <2>2, <3>3, <5>1 DEF FileOf
      <4>2. app' = f /\ f \in Download
        BY <1>2, <2>2, <4>1 DEF Inv, DownloadOK, DownloadType
      <4>3. f # Absent
        BY <4>2 DEF RecoverAssumption
      <4>. QED  BY <2>2, <4>2, <4>3 DEF Whole
    <3>. QED  BY <1>2, <3>1, <3>2, <3>3, NamesStay
  <2>3. CASE f = app /\ app # Absent /\ ~app.cut
    BY <2>1, <2>3 DEF Whole
  <2>. QED  BY <2>2, <2>3 DEF Whole
<1>3. Inv /\ NamedIsHeld' /\ [Next]_vars => [HeldBackups \subseteq HeldBackups']_vars
  BY <1>2
<1>. QED  BY <1>1, <1>3, CleanInductive, PTL DEF Spec, NothingLost

-----------------------------------------------------------------------------
(* A run without an error.                                                 *)

\* The files of a label that extends another come after the other's.
LongerLabelsLater == \A l \in Labels : \A m \in Prefixed[l] : l < m

\* The path of an entry that has a database is its own.
LEMMA OwnPath ==
    ASSUME BucketAssumption, DownloadAssumption, DownloadType, LongerLabelsLater,
           NEW l \in Labels, NEW k \in Databases(l), k.label = l
    PROVE  DbPath(l) \in Databases(l) /\ DbPath(l).label = l
<1>1. /\ DbPath(l) \in Databases(l)
      /\ k # DbPath(l) => DbPath(l).label < k.label \/ DbPath(l).label = k.label
  BY DbPathIs
<1>2. DbPath(l).label \in {l} \cup Prefixed[l] /\ DbPath(l).label \in Labels
  BY <1>1 DEF Databases, Seen, DownloadType, Download, Key
<1>3. l <= DbPath(l).label /\ l \in Nat /\ DbPath(l).label \in Nat
  BY <1>2 DEF LongerLabelsLater, Labels
<1>. QED  BY <1>1, <1>3

\* A run without an error finds the database of every entry the bucket held
\* something of, complete.
LEMMA CleanFind ==
    ASSUME BucketAssumption, DownloadAssumption, RecoverAssumption, LongerLabelsLater,
           Inv, CleanInv, run.clean, run.pc = "find",
           NEW l \in Labels, held[l] # Absent
    PROVE  /\ DbPath(l) \in DbPaths /\ FileOf(DbPath(l)).key.label = l
           /\ ~FileOf(DbPath(l)).cut
<1>. USE DEF Inv, CleanInv
<1>1. run.todo = {} /\ dl.todo = {}
  BY DEF CommandInv, NoDownload
<1>2. PICK k \in Names : k.label = l /\ ~k.name.age /\ k.name.ext # "gz"
  BY <1>1 DEF NewestInv, Ready
<1>3. k \in Databases(l)
  BY <1>2 DEF NamesInv, Names, Databases, Seen
<1>4. DbPath(l) \in Databases(l) /\ DbPath(l).label = l
  BY <1>2, <1>3, OwnPath DEF DownloadOK
<1>5. \E f \in dest : f.key = DbPath(l)
  BY <1>4 DEF Databases, Seen
<1>6. FileOf(DbPath(l)) \in dest /\ FileOf(DbPath(l)).key = DbPath(l)
  BY <1>5 DEF FileOf
<1>7. ~FileOf(DbPath(l)).cut
  BY <1>6 DEF RemadeInv
<1>8. DbPath(l) \in DbPaths
  BY <1>4 DEF DbPaths
<1>. QED  BY <1>4, <1>6, <1>7, <1>8

\* A run without an error needs no tidying up after those before it: it installs
\* a complete database, and finds one if the bucket listed anything of the
\* application.
THEOREM CleanRunsRecover == ASSUME LongerLabelsLater PROVE Spec => CleanRunRecovers
<1>. USE BucketAssumption, DownloadAssumption, RecoverAssumption
<1>1. ASSUME Inv, CleanInv, run.clean, Move
      PROVE  ~app'.cut
  <2>1. run.pc = "move" /\ app' = FileOf(run.pick)
    BY <1>1 DEF Move
  <2>2. \E f \in dest : f.key = run.pick
    BY <1>1, <2>1 DEF Inv, PickInv, Names
  <2>3. app' \in dest
    BY <2>1, <2>2 DEF FileOf
  <2>. QED  BY <1>1, <2>1, <2>3 DEF CleanInv, RemadeInv
<1>2. ASSUME Inv, CleanInv, run.clean, FailFind, NEW l \in AppLabels, held[l] # Absent
      PROVE  FALSE
  <2>1. DbPath(l) \in DbPaths => ~Reads(FileOf(DbPath(l)))
    BY <1>2 DEF FailFind
  <2>2. l \in Labels /\ run.pc = "find"
    BY <1>2 DEF FailFind, RecoverAssumption
  <2>. QED  BY <1>2, <2>1, <2>2, CleanFind DEF Reads
<1>3. Inv /\ CleanInv /\ [Next]_vars =>
          [run.clean => /\ Move => ~app'.cut
                        /\ FailFind => \A l \in AppLabels : held[l] = Absent]_vars
  BY <1>1, <1>2
<1>. QED  BY <1>3, CleanInductive, PTL DEF Spec, CleanRunRecovers
=============================================================================
