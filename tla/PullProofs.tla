----------------------------- MODULE PullProofs ------------------------------
(***************************************************************************)
(* The pull commands, for any backup directory, any number of snapshots,   *)
(* failures and runs: types, what a run without an error has brought, and  *)
(* that nothing stays open between runs.                                   *)
(*                                                                         *)
(* For rsync the argument follows the list of a run: what is owed is still *)
(* to come or has a fresh copy, as long as the server has met no error.    *)
(* For sftp it is that a compressed snapshot that sorts above the others   *)
(* of its id is the newest of them.                                        *)
(***************************************************************************)
EXTENDS PullClients, TLAPS, FiniteSetTheorems, FunctionTheorems,
        WellFoundedInduction, NaturalsInduction

(***************************************************************************)
(* Greatest elements: of a set of times, and of a directory by name.       *)
(***************************************************************************)

\* A set of numbers has a least one.
LEMMA Least ==
    ASSUME NEW S \in SUBSET Nat, S # {}
    PROVE  \E y \in S : \A z \in S : y <= z
<1> DEFINE R == OpToRel(<, Nat)
<1>1. \A x, y \in Nat : x < y => <<x, y>> \in R
  BY DEF OpToRel
<1>2. IsWellFoundedOn(R, Nat)
  BY NatLessThanWellFounded
<1>3. PICK y \in S : \A z \in S : ~(<<z, y>> \in R)
  <2>. HIDE DEF R
  <2>. QED  BY <1>2, WFMin
<1>4. \A z \in S : y <= z
  <2>. HIDE DEF R
  <2>. SUFFICES ASSUME NEW z \in S, z < y PROVE FALSE
    OBVIOUS
  <2>1. z \in Nat /\ y \in Nat
    OBVIOUS
  <2>. QED  BY <1>1, <1>3, <2>1
<1>. QED  BY <1>4

\* The newest snapshot of an id is one of them, and the greatest.
LEMMA NewestIsMax ==
    ASSUME DirAssumption, NEW S \in SUBSET Time, S # {}
    PROVE  Max(S) \in S /\ \A x \in S : x <= Max(S)
<1>. DEFINE D == {MaxTime - x : x \in S}
<1>1. D \in SUBSET Nat /\ D # {}
  <2>1. \A x \in S : x \in Nat /\ MaxTime - x \in Nat
    BY DEF DirAssumption, Time
  <2>. QED  BY <2>1
<1>. HIDE DEF D
<1>2. PICK d \in D : \A z \in D : d <= z
  BY <1>1, Least
<1>3. PICK m \in S : d = MaxTime - m
  BY <1>2 DEF D
<1>4. \A x \in S : MaxTime - x \in D
  BY DEF D
<1>5. \A x \in S : x <= m
  <2>. SUFFICES ASSUME NEW x \in S PROVE x <= m
    OBVIOUS
  <2>1. MaxTime - m <= MaxTime - x
    BY <1>2, <1>3, <1>4
  <2>. QED  BY <2>1 DEF DirAssumption, Time
<1>. QED  BY <1>5 DEF Max, Time

\* A snapshot can be staged for an id: its time is in bounds.
LEMMA StageInTime ==
    ASSUME DirAssumption, NEW S \in SUBSET Time, Cardinality(S) < MaxTime
    PROVE  Cardinality(S) + 1 \in Time
<1>1. IsFiniteSet(Time)
  BY FS_Interval DEF DirAssumption, Time
<1>2. Cardinality(S) \in Nat
  BY <1>1, FS_Subset, FS_CardinalityType
<1>. QED  BY <1>2 DEF DirAssumption, Time

\* The order of names, spelt out.
LEMMA AboveIs ==
    ASSUME DirAssumption, NEW n \in Name, NEW m \in Name
    PROVE  Above(Key(n), Key(m)) <=>
              \/ Key(n)[1] > Key(m)[1]
              \/ Key(n)[1] = Key(m)[1] /\ Key(n)[2] > Key(m)[2]
              \/ /\ Key(n)[1] = Key(m)[1] /\ Key(n)[2] = Key(m)[2]
                 /\ Key(n)[3] > Key(m)[3]
<1>. DEFINE a == Key(n)
            b == Key(m)
<1>. HIDE DEF a, b
<1>1. (\E i \in 1 .. 3 : a[i] > b[i] /\ \A j \in 1 .. i - 1 : a[j] = b[j]) <=>
              \/ a[1] > b[1]
              \/ a[1] = b[1] /\ a[2] > b[2]
              \/ a[1] = b[1] /\ a[2] = b[2] /\ a[3] > b[3]
  <2>1. \A i \in 1 .. 3 : i = 1 \/ i = 2 \/ i = 3
    OBVIOUS
  <2>2. (\A j \in 1 .. 1 - 1 : a[j] = b[j]) <=> TRUE
    OBVIOUS
  <2>3. (\A j \in 1 .. 2 - 1 : a[j] = b[j]) <=> a[1] = b[1]
    OBVIOUS
  <2>4. (\A j \in 1 .. 3 - 1 : a[j] = b[j]) <=> a[1] = b[1] /\ a[2] = b[2]
    OBVIOUS
  <2>5. 1 \in 1 .. 3 /\ 2 \in 1 .. 3 /\ 3 \in 1 .. 3
    OBVIOUS
  <2>. QED  BY <2>1, <2>2, <2>3, <2>4, <2>5, Zenon
<1>. QED  BY <1>1 DEF Above, a, b

\* Its parts are numbers, and a name has its own.
LEMMA KeyIs ==
    ASSUME DirAssumption, NEW n \in Name
    PROVE  /\ Key(n)[1] = (IF n.at = 0 THEN LatestRank ELSE n.id) /\ Key(n)[1] \in Int
           /\ Key(n)[2] = (IF n.at = 0 THEN n.id ELSE n.at) /\ Key(n)[2] \in Int
           /\ Key(n)[3] = (IF n.tmp THEN 1 ELSE 0) /\ Key(n)[3] \in Int
<1>1. /\ Key(n)[1] = (IF n.at = 0 THEN LatestRank ELSE n.id)
      /\ Key(n)[2] = (IF n.at = 0 THEN n.id ELSE n.at)
      /\ Key(n)[3] = (IF n.tmp THEN 1 ELSE 0)
  BY DEF Key
<1>2. n.id \in Int /\ n.at \in Int /\ LatestRank \in Int
  <2>1. Ids \subseteq Int /\ LatestRank \in Int
    BY DEF DirAssumption
  <2>2. n.id \in Ids /\ n.at \in {0} \cup Time
    BY DEF Name
  <2>3. {0} \cup Time \subseteq Int
    BY DEF Time
  <2>. QED  BY <2>1, <2>2, <2>3
<1>3. (IF n.at = 0 THEN LatestRank ELSE n.id) \in Int
  BY <1>2
<1>4. (IF n.at = 0 THEN n.id ELSE n.at) \in Int
  BY <1>2
<1>5. (IF n.tmp THEN 1 ELSE 0) \in Int
  OBVIOUS
<1>. QED  BY <1>1, <1>3, <1>4, <1>5

\* Of two names one is above the other, and above is transitive.
LEMMA NamesOrdered ==
    ASSUME DirAssumption
    PROVE  /\ \A n, m \in Name : n = m \/ Above(Key(n), Key(m)) \/ Above(Key(m), Key(n))
           /\ \A n \in Name : ~Above(Key(n), Key(n))
           /\ \A n, m, k \in Name : Above(Key(n), Key(m)) /\ Above(Key(m), Key(k)) =>
                                        Above(Key(n), Key(k))
<1>1. \A n, m \in Name : n = m \/ Above(Key(n), Key(m)) \/ Above(Key(m), Key(n))
  <2>. SUFFICES ASSUME NEW n \in Name, NEW m \in Name,
                       ~Above(Key(n), Key(m)), ~Above(Key(m), Key(n))
       PROVE  n = m
    OBVIOUS
  <2>1. Key(n)[1] = Key(m)[1] /\ Key(n)[2] = Key(m)[2] /\ Key(n)[3] = Key(m)[3]
    BY AboveIs, KeyIs
  <2>2. n.id = m.id /\ n.at = m.at /\ n.tmp = m.tmp
    BY <2>1, KeyIs DEF DirAssumption, Name, Time
  <2>. QED  BY <2>2 DEF Name
<1>2. \A n \in Name : ~Above(Key(n), Key(n))
  BY AboveIs, KeyIs
<1>3. \A n, m, k \in Name : Above(Key(n), Key(m)) /\ Above(Key(m), Key(k)) =>
                                        Above(Key(n), Key(k))
  <2>. SUFFICES ASSUME NEW n \in Name, NEW m \in Name, NEW k \in Name,
                       Above(Key(n), Key(m)), Above(Key(m), Key(k))
       PROVE  Above(Key(n), Key(k))
    OBVIOUS
  <2>. QED  BY AboveIs, KeyIs
<1>. QED  BY <1>1, <1>2, <1>3

\* The names of a directory are finitely many.
LEMMA NamesFinite ==
    ASSUME DirAssumption
    PROVE  IsFiniteSet(Name)
<1>. DEFINE P == Ids \X ((0 .. MaxTime) \X BOOLEAN)
            f == [n \in Name |-> <<n.id, <<n.at, n.tmp>>>>]
<1>1. IsFiniteSet(P)
  <2>1. IsFiniteSet(0 .. MaxTime) /\ IsFiniteSet(BOOLEAN)
    <3>1. IsFiniteSet({} \cup {TRUE} \cup {FALSE})
      BY FS_EmptySet, FS_AddElement
    <3>2. BOOLEAN = {} \cup {TRUE} \cup {FALSE}
      OBVIOUS
    <3>3. MaxTime \in Int /\ 0 \in Int
      BY DEF DirAssumption
    <3>4. IsFiniteSet(0 .. MaxTime)
      BY <3>3, FS_Interval
    <3>. QED  BY <3>1, <3>2, <3>4
  <2>2. IsFiniteSet((0 .. MaxTime) \X BOOLEAN)
    BY <2>1, FS_Product
  <2>. QED  BY <2>2, FS_Product DEF DirAssumption
<1>2. f \in Injection(Name, P)
  <2>1. f \in [Name -> P]
    BY DEF Name, Time, DirAssumption
  <2>2. \A n, m \in Name : f[n] = f[m] => n = m
    BY DEF Name
  <2>. QED  BY <2>1, <2>2 DEF Injection, IsInjective
<1>. QED  BY <1>1, <1>2, FS_Injection

\* findLatestBackup: the name it takes is in the listing, and above the others.
LEMMA LatestIsGreatest ==
    ASSUME DirAssumption, NEW S \in SUBSET Name, S # {}
    PROVE  Latest(S) \in S /\ \A m \in S \ {Latest(S)} : Above(Key(Latest(S)), Key(m))
<1>. DEFINE Over(n) == {m \in S : Above(Key(m), Key(n))}
            C == {Cardinality(Over(n)) : n \in S}
<1>1. \A n \in S : IsFiniteSet(Over(n)) /\ Cardinality(Over(n)) \in Nat
  BY NamesFinite, FS_Subset, FS_CardinalityType
<1>2. C \in SUBSET Nat /\ C # {}
  BY <1>1
<1>. HIDE DEF C
<1>3. PICK c \in C : \A z \in C : c <= z
  BY <1>2, Least
<1>4. PICK n \in S : c = Cardinality(Over(n))
  BY <1>3 DEF C
<1>5. ASSUME NEW m \in S, Above(Key(m), Key(n))
      PROVE  FALSE
  <2>1. Over(m) \in SUBSET Over(n)
    BY <1>5, NamesOrdered
  <2>2. m \in Over(n) /\ m \notin Over(m)
    BY <1>5, NamesOrdered
  <2>3. Cardinality(Over(m)) \in C
    BY DEF C
  <2>. HIDE DEF Over
  <2>4. Cardinality(Over(m)) <= Cardinality(Over(n)) /\ Cardinality(Over(n)) <= Cardinality(Over(m))
    BY <1>1, <1>3, <1>4, <2>1, <2>3, FS_Subset
  <2>5. Over(n) = Over(m)
    BY <1>1, <2>1, <2>4, FS_Subset
  <2>. QED  BY <2>2, <2>5
<1>6. \A m \in S \ {n} : Above(Key(n), Key(m))
  BY <1>5, NamesOrdered
<1>. QED  BY <1>6 DEF Latest

(***************************************************************************)
(* The invariant.                                                          *)
(***************************************************************************)

\* A link names a published snapshot, and never one of a compressed id.
DirInv ==
    \A i \in Ids : latest[i] # Absent => latest[i] \in published[i] /\ i \notin zipped

RsyncPcs == {"session", "transfer", "wait", "exiting", "close", "verify", "select"}
SftpPcs == {"list", "open", "copy", "check"}

\* Which command stands where; the daemon has an interval for its ticker.
Modes ==
    /\ pc \in RsyncPcs => cmd # "sftp"
    /\ pc \in SftpPcs => cmd = "sftp"
    /\ cmd = "sftp" => ~onMachine
    /\ cmd = "daemon" /\ pc \notin {"start", "refused"} => interval > 0

\* Outside of a run nothing is open; outside of a transfer no file is received;
\* and what wait has dealt with is over.
Closed ==
    cmd # "sftp" =>
        /\ ~held => proc = "none" /\ ~stdin
        /\ pc = "exiting" => ~stdin
        /\ pc \notin {"session", "transfer", "wait", "exiting", "close"} =>
                ~conn /\ ~stdin /\ ~held /\ proc = "none"
        /\ pc # "transfer" => file = Absent

\* The local copy of what the link of i names is as new as what is owed.
Fresh(i) == local[LinkName(i)] # Absent /\ local[LinkName(i)].at >= from[i]

AllFresh == \A i \in Ids : from[i] # Absent => Fresh(i)

\* While files are received: the links have not moved back, and what is owed
\* is fresh or on the list, unless the server has met an error.
Receiving ==
    /\ list \subseteq Linked
    /\ \A i \in Ids : from[i] # Absent => latest[i] # Absent /\ from[i] <= latest[i]
    /\ clean => \A i \in Ids : from[i] # Absent => i \in list \/ Fresh(i)
    /\ file # Absent =>
        \E i \in list : /\ file.name = LinkName(i)
                        /\ from[i] # Absent => file.holds.at >= from[i]

Pulling ==
    /\ pc = "transfer" => Receiving
    /\ pc \in {"wait", "exiting"} /\ clean => AllFresh
    /\ pc = "close" /\ ~err => AllFresh
    /\ pc = "verify" => AllFresh

\* The name sftp has picked: only its id is owed, and a compressed snapshot is
\* what its name says, and as new.
Picked ==
    /\ file \in [name : Name, holds : Content]
    /\ \A i \in Ids : from[i] # Absent => i = file.name.id
    /\ file.name.id \in zipped =>
        /\ file.name.at # 0 /\ file.holds.at = file.name.at
        /\ \A i \in Ids : from[i] # Absent => file.name.at >= from[i]

Picking ==
    /\ pc \in {"open", "copy", "check"} => Picked
    /\ pc = "check" => local[file.name] = file.holds

\* The ticker is started after the first run.
Ticking == pc \in {"start", "refused"} => ticker = "none"

Inv ==
    TypeOK /\ DirInv /\ Modes /\ Closed /\ Ticking /\ Pulling /\ Picking /\ CleanRunIsCurrent

(***************************************************************************)
(* What the steps read, and its type.                                      *)
(***************************************************************************)

\* What List does when the directory holds names, and what Open does when the
\* file is still there.
Listed(names) ==
    IF names = {} THEN Fail /\ UNCHANGED <<file, from>>
    ELSE LET n == Latest(names)
         IN  /\ \E c \in Possible(n) : file' = [name |-> n, holds |-> c]
             /\ from' = Owed(n) /\ pc' = "open" /\ UNCHANGED outcome

Opens ==
    /\ file.name \in Listing \cup LinksInMaking
    /\ \E c \in Possible(file.name) :
          /\ file' = [file EXCEPT !.holds = c]
          /\ local' = [local EXCEPT ![file.name] = [at |-> c.at, form |-> "part"]]
    /\ pc' = "copy" /\ UNCHANGED outcome

\* The form of a snapshot is a form.
LEMMA FormTyped ==
    ASSUME NEW i, NEW t
    PROVE  FormOf(i, t) \in Forms
<1>1. CASE \E f \in {"empty", "broken"} : <<i, t, f>> \in flawed
  <2>1. (CHOOSE f \in {"empty", "broken"} : <<i, t, f>> \in flawed) \in {"empty", "broken"}
    BY <1>1
  <2>. QED  BY <1>1, <2>1 DEF FormOf, Forms
<1>2. CASE ~\E f \in {"empty", "broken"} : <<i, t, f>> \in flawed
  BY <1>2 DEF FormOf, Forms
<1>. QED  BY <1>1, <1>2

\* What a link names can be sent.
LEMMA HeldTyped ==
    ASSUME TypeOK, NEW i \in Linked
    PROVE  HeldBy(i) \in Content /\ LinkName(i) \in Name /\ HeldBy(i).at = latest[i]
<1>1. i \in Ids /\ latest[i] \in Time
  BY DEF TypeOK, DirTypeOK, Linked
<1>. QED  BY <1>1, FormTyped DEF HeldBy, LinkName, Content, Name

\* What may be listed are names.
LEMMA ListingsTyped ==
    Listing \cup LinksInMaking \in SUBSET Name
    /\ \A names \in Listings : Listing \subseteq names /\ names \subseteq Listing \cup LinksInMaking
BY DEF Listings, Listing, LinksInMaking

\* What is behind one of them can be received.
LEMMA PossibleTyped ==
    ASSUME TypeOK, NEW n \in Listing \cup LinksInMaking, NEW c \in Possible(n)
    PROVE  n \in Name /\ c \in Content /\ (n.at # 0 => c.at = n.at)
<1>1. n \in Name /\ n.id \in Ids /\ n.at \in {0} \cup Time
  BY ListingsTyped DEF Name
<1>2. CASE n.tmp /\ n.at # 0
  <2>1. n.at \in Time /\ c.at = n.at /\ c.form \in Forms /\ c \in [at : {n.at}, form : Forms]
    BY <1>1, <1>2 DEF Possible, Forms
  <2>. QED  BY <1>1, <2>1 DEF Content
<1>3. CASE ~n.tmp /\ n.at # 0
  <2>1. n.at \in Time /\ c = [at |-> n.at, form |-> FormOf(n.id, n.at)]
    BY <1>1, <1>3 DEF Possible
  <2>. QED  BY <1>1, <2>1, FormTyped DEF Content
<1>4. CASE n.at = 0
  <2>1. PICK t \in IF n.tmp THEN published[n.id] ELSE {latest[n.id]} :
            c = [at |-> t, form |-> FormOf(n.id, t)]
    BY <1>4 DEF Possible
  <2>2. CASE n.tmp
    BY <1>1, <1>4, <2>1, <2>2, FormTyped DEF Content, TypeOK, DirTypeOK
  <2>3. CASE ~n.tmp
    <3>1. 0 \notin Time
      BY DEF Time
    <3>2. n.at \notin published[n.id]
      BY <1>1, <1>4, <3>1 DEF TypeOK, DirTypeOK
    <3>3. latest[n.id] \in Time
      BY <1>1, <2>3, <3>2 DEF Listing, LinksInMaking, TypeOK, DirTypeOK
    <3>. QED  BY <1>1, <1>4, <2>1, <2>3, <3>3, FormTyped DEF Content
  <2>. QED  BY <2>2, <2>3
<1>. QED  BY <1>2, <1>3, <1>4

\* What is owed for a name: a snapshot of its id, and the newest.
LEMMA OwedTyped ==
    ASSUME DirAssumption, TypeOK, NEW n \in Name
    PROVE  /\ Owed(n) \in [Ids -> Time \cup {Absent}]
           /\ \A i \in Ids : Owed(n)[i] # Absent =>
                i = n.id /\ Owed(n)[i] \in published[i] /\ \A t \in published[i] : t <= Owed(n)[i]
<1>. SUFFICES ASSUME NEW i \in Ids
     PROVE  /\ Owed(n)[i] \in Time \cup {Absent}
            /\ Owed(n)[i] # Absent =>
                i = n.id /\ Owed(n)[i] \in published[i] /\ \A t \in published[i] : t <= Owed(n)[i]
  BY DEF Owed
<1>1. published[i] \in SUBSET Time
  BY DEF TypeOK, DirTypeOK
<1>2. CASE i = n.id /\ published[i] # {}
  <2>1. Owed(n)[i] = Max(published[i])
    BY <1>2 DEF Owed
  <2>. QED  BY <1>1, <1>2, <2>1, NewestIsMax
<1>3. CASE ~(i = n.id /\ published[i] # {})
  BY <1>3 DEF Owed
<1>. QED  BY <1>2, <1>3

\* A compressed snapshot that is picked is the newest of its id: it is listed
\* above the others, and has no link.
LEMMA PickedIsNewest ==
    ASSUME DirAssumption, TypeOK, DirInv, NEW names \in Listings, names # {},
           Latest(names).id \in zipped
    PROVE  /\ Latest(names).at # 0
           /\ \A t \in published[Latest(names).id] : t <= Latest(names).at
<1>. DEFINE n == Latest(names)
<1>1. names \in SUBSET Name /\ Listing \subseteq names /\ names \subseteq Listing \cup LinksInMaking
  BY ListingsTyped
<1>2. n \in names /\ \A m \in names \ {n} : Above(Key(n), Key(m))
  BY <1>1, LatestIsGreatest
<1>. HIDE DEF n
<1>3. n \in Name /\ n.id \in Ids /\ n.at \in {0} \cup Time
  BY <1>1, <1>2 DEF Name
<1>4. n.id \in zipped
  BY DEF n
<1>5. latest[n.id] = Absent
  BY <1>3, <1>4 DEF DirInv
<1>6. published[n.id] \in SUBSET Time /\ \A x \in Time : x \in Int /\ x # 0
  <2>1. published[n.id] \in SUBSET Time
    BY <1>3 DEF TypeOK, DirTypeOK
  <2>2. \A x \in Time : x \in Int /\ x # 0
    BY DEF Time
  <2>. QED  BY <2>1, <2>2
<1>7. n.at # 0
  BY <1>1, <1>2, <1>3, <1>4, <1>5, <1>6 DEF Listing, LinksInMaking
<1>8. ASSUME NEW t \in published[n.id]
      PROVE  t <= n.at
  <2>. DEFINE m == [id |-> n.id, at |-> t, tmp |-> FALSE]
  <2>1. t \in Time /\ t # 0
    BY <1>6
  <2>2. m \in Name /\ m \in names /\ m.id = n.id /\ m.at = t
    BY <1>1, <1>3, <2>1 DEF Listing, Name
  <2>. HIDE DEF m
  <2>3. CASE m = n
    BY <1>6, <2>1, <2>2, <2>3
  <2>4. CASE m # n
    <3>1. Above(Key(n), Key(m))
      BY <1>2, <2>2, <2>4
    <3>2. Key(n)[1] = Key(m)[1] /\ Key(n)[1] \in Int /\ Key(n)[2] = n.at /\ Key(m)[2] = t
      BY <1>3, <1>7, <2>1, <2>2, KeyIs
    <3>3. n.at \in Int /\ t \in Int
      BY <1>3, <1>6, <2>1
    <3>4. ~(Key(n)[1] > Key(m)[1]) /\ (Key(n)[2] > Key(m)[2] \/ Key(n)[2] = Key(m)[2])
      BY <1>3, <2>2, <3>1, <3>2, AboveIs
    <3>. QED  BY <3>2, <3>3, <3>4
  <2>. QED  BY <2>3, <2>4
<1>. QED  BY <1>7, <1>8 DEF n

(***************************************************************************)
(* The steps keep the types.                                               *)
(***************************************************************************)

\* Every step of a command, of its server and of its environment but the copy job.
LEMMA CommandKeepsTypes ==
    ASSUME DirAssumption, ClientAssumption, Inv,
           \/ ClientStep \/ TakeStop \/ ServerExit \/ Tick \/ Stop
           \/ FallSilent /\ UNCHANGED rsyncVars
    PROVE  TypeOK'
<1>. USE DEF Inv, dirVars, clientVars, daemonVars, procVars, listVars, rsyncVars, sftpVars, Inject
<1>1. CASE Startup /\ UNCHANGED rsyncVars
  <2>1. pc' \in PCs
    BY <1>1 DEF Startup, Usable, TypeOK, PCs
  <2>2. DirTypeOK'
    BY <1>1 DEF Startup, Usable, TypeOK, DirTypeOK
  <2>3. ClientTypeOK'
    <3>1. interval' \in Int
      <4>1. \A e \in Env : IntervalOf(e) \in Int
        <5>. SUFFICES ASSUME NEW e \in Env PROVE IntervalOf(e) \in Int
          OBVIOUS
        <5>1. e.interval \in Int
          BY DEF ClientAssumption, Env
        <5>. QED  BY <5>1 DEF IntervalOf
      <4>. QED  BY <1>1, <4>1 DEF Startup, TypeOK, ClientTypeOK
    <3>. QED  BY <1>1, <3>1 DEF Startup, TypeOK, ClientTypeOK
  <2>4. RsyncTypeOK'
    <3>1. ticker = "none"
      BY <1>1 DEF Startup, Ticking
    <3>. QED  BY <1>1, <3>1 DEF Startup, TypeOK, RsyncTypeOK
  <2>. QED  BY <2>1, <2>2, <2>3, <2>4 DEF TypeOK
<1>2. CASE Dial /\ UNCHANGED rsyncVars
  BY <1>2 DEF Dial, TypeOK, PCs, DirTypeOK, ClientTypeOK, RsyncTypeOK, Modes
<1>3. CASE FailDial /\ UNCHANGED rsyncVars
  BY <1>3 DEF FailDial, TypeOK, PCs, DirTypeOK, ClientTypeOK, RsyncTypeOK, Modes
<1>4. CASE List /\ UNCHANGED rsyncVars
  <2>1. pc' \in PCs
    BY <1>4 DEF List, Fail, TypeOK, PCs
  <2>2. DirTypeOK'
    BY <1>4 DEF List, Fail, TypeOK, DirTypeOK
  <2>3. ClientTypeOK'
    <3>. PICK names \in Listings : Listed(names)
      BY <1>4 DEF List, Listed
    <3>1. CASE names = {}
      BY <1>4, <3>1 DEF List, Listed, Fail, TypeOK, ClientTypeOK
    <3>2. CASE names # {}
      <4>1. names \in SUBSET Name /\ names \subseteq Listing \cup LinksInMaking
        BY ListingsTyped
      <4>2. Latest(names) \in names
        BY <3>2, <4>1, LatestIsGreatest
      <4>3. \A c \in Possible(Latest(names)) : Latest(names) \in Name /\ c \in Content
        BY <4>1, <4>2, PossibleTyped
      <4>4. Owed(Latest(names)) \in [Ids -> Time \cup {Absent}]
        BY <4>1, <4>2, OwedTyped
      <4>. QED  BY <1>4, <3>2, <4>3, <4>4 DEF List, Listed, TypeOK, ClientTypeOK
    <3>. QED  BY <3>1, <3>2
  <2>4. RsyncTypeOK'
    BY <1>4 DEF List, Fail, TypeOK, RsyncTypeOK
  <2>. QED  BY <2>1, <2>2, <2>3, <2>4 DEF TypeOK
<1>5. CASE FailList /\ UNCHANGED rsyncVars
  BY <1>5 DEF FailList, Fail, TypeOK, PCs, DirTypeOK, ClientTypeOK, RsyncTypeOK, Modes
<1>6. CASE Open /\ UNCHANGED rsyncVars
  <2>1. pc' \in PCs
    BY <1>6 DEF Open, Fail, TypeOK, PCs
  <2>2. DirTypeOK' /\ ClientTypeOK'
    <3>1. CASE Opens
      <4>1. PICK c \in Possible(file.name) :
                /\ file' = [file EXCEPT !.holds = c]
                /\ local' = [local EXCEPT ![file.name] = [at |-> c.at, form |-> "part"]]
        BY <3>1 DEF Opens
      <4>2. c \in Content
        BY <3>1, PossibleTyped DEF Opens
      <4>3. file' \in [name : Name, holds : Content]
        BY <1>6, <4>1, <4>2 DEF Open, Picking, Picked
      <4>4. [at |-> c.at, form |-> "part"] \in Content
        BY <4>2 DEF Content, Forms
      <4>5. local' \in [Name -> Content \cup {Absent}]
        BY <4>1, <4>4 DEF TypeOK, DirTypeOK
      <4>6. DirTypeOK'
        BY <1>6, <4>5 DEF Open, TypeOK, DirTypeOK
      <4>7. ClientTypeOK'
        BY <1>6, <3>1, <4>3 DEF Open, Opens, TypeOK, ClientTypeOK
      <4>. QED  BY <4>6, <4>7
    <3>2. CASE Fail /\ UNCHANGED <<file, local>>
      BY <1>6, <3>2 DEF Open, Fail, TypeOK, DirTypeOK, ClientTypeOK
    <3>. QED  BY <1>6, <3>1, <3>2 DEF Open, Opens
  <2>3. RsyncTypeOK'
    BY <1>6 DEF Open, Fail, TypeOK, RsyncTypeOK
  <2>. QED  BY <2>1, <2>2, <2>3 DEF TypeOK
<1>7. CASE FailOpen /\ UNCHANGED rsyncVars
  BY <1>7 DEF FailOpen, Fail, TypeOK, PCs, DirTypeOK, ClientTypeOK, RsyncTypeOK, Modes
<1>8. CASE Copy /\ UNCHANGED rsyncVars
  <2>1. pc' \in PCs
    BY <1>8 DEF Copy, TypeOK, PCs
  <2>2. DirTypeOK'
    <3>1. file.name \in Name /\ file.holds \in Content
      BY <1>8 DEF Copy, Picking, Picked
    <3>2. local' \in [Name -> Content \cup {Absent}]
      BY <1>8, <3>1 DEF Copy, TypeOK, DirTypeOK
    <3>. QED  BY <1>8, <3>2 DEF Copy, TypeOK, DirTypeOK
  <2>3. ClientTypeOK'
    BY <1>8 DEF Copy, TypeOK, ClientTypeOK
  <2>4. RsyncTypeOK'
    BY <1>8 DEF Copy, TypeOK, RsyncTypeOK
  <2>. QED  BY <2>1, <2>2, <2>3, <2>4 DEF TypeOK
<1>9. CASE FailCopy /\ UNCHANGED rsyncVars
  BY <1>9 DEF FailCopy, Fail, TypeOK, PCs, DirTypeOK, ClientTypeOK, RsyncTypeOK, Modes
<1>10. CASE Check /\ UNCHANGED rsyncVars
  BY <1>10 DEF Check, Fail, Sound, TypeOK, PCs, DirTypeOK, ClientTypeOK, RsyncTypeOK, Modes
<1>11. CASE Exit /\ UNCHANGED rsyncVars
  <2>1. pc' \in PCs
    BY <1>11 DEF Exit, TypeOK, PCs
  <2>2. DirTypeOK'
    BY <1>11 DEF Exit, TypeOK, DirTypeOK
  <2>3. ClientTypeOK'
    BY <1>11 DEF Exit, TypeOK, ClientTypeOK
  <2>4. RsyncTypeOK'
    BY <1>11 DEF Exit, TypeOK, RsyncTypeOK
  <2>. QED  BY <2>1, <2>2, <2>3, <2>4 DEF TypeOK
<1>12. CASE NewSession
  <2>1. pc' \in PCs
    BY <1>12 DEF NewSession, Started, TypeOK, PCs
  <2>2. DirTypeOK'
    BY <1>12 DEF NewSession, Started, TypeOK, DirTypeOK
  <2>3. ClientTypeOK'
    BY <1>12 DEF NewSession, MakeList, TypeOK, DirTypeOK, ClientTypeOK
  <2>4. RsyncTypeOK'
    <3>1. list' \subseteq Ids /\ some' \in BOOLEAN
      BY <1>12 DEF NewSession, MakeList, Linked
    <3>. QED  BY <1>12, <3>1 DEF NewSession, Started, TypeOK, RsyncTypeOK
  <2>. QED  BY <2>1, <2>2, <2>3, <2>4 DEF TypeOK
<1>13. CASE FailSession
  BY <1>13 DEF FailSession, TypeOK, PCs, DirTypeOK, ClientTypeOK, RsyncTypeOK, Modes
<1>14. CASE Spawn
  <2>1. pc' \in PCs
    BY <1>14 DEF Spawn, Started, TypeOK, PCs
  <2>2. DirTypeOK'
    BY <1>14 DEF Spawn, Started, TypeOK, DirTypeOK
  <2>3. ClientTypeOK'
    BY <1>14 DEF Spawn, MakeList, TypeOK, DirTypeOK, ClientTypeOK
  <2>4. RsyncTypeOK'
    <3>1. list' \subseteq Ids /\ some' \in BOOLEAN
      BY <1>14 DEF Spawn, MakeList, Linked
    <3>. QED  BY <1>14, <3>1 DEF Spawn, Started, TypeOK, RsyncTypeOK
  <2>. QED  BY <2>1, <2>2, <2>3, <2>4 DEF TypeOK
<1>15. CASE FailSpawn
  BY <1>15 DEF FailSpawn, TypeOK, PCs, DirTypeOK, ClientTypeOK, RsyncTypeOK, Modes
<1>16. CASE SendFile
  <2>1. pc' \in PCs
    BY <1>16 DEF SendFile, TypeOK, PCs
  <2>2. DirTypeOK'
    BY <1>16 DEF SendFile, TypeOK, DirTypeOK
  <2>3. ClientTypeOK'
    <3>1. PICK i \in list : file' = [name |-> LinkName(i), holds |-> HeldBy(i)]
      BY <1>16 DEF SendFile
    <3>2. i \in Linked
      BY <1>16, <3>1 DEF SendFile, Pulling, Receiving
    <3>3. LinkName(i) \in Name /\ HeldBy(i) \in Content
      BY <3>2, HeldTyped
    <3>4. file' \in [name : Name, holds : Content]
      BY <3>1, <3>3
    <3>. QED  BY <1>16, <3>4 DEF SendFile, TypeOK, ClientTypeOK
  <2>4. RsyncTypeOK'
    BY <1>16 DEF SendFile, TypeOK, RsyncTypeOK
  <2>. QED  BY <2>1, <2>2, <2>3, <2>4 DEF TypeOK
<1>17. CASE SkipFile
  <2>1. pc' \in PCs
    BY <1>17 DEF SkipFile, TypeOK, PCs
  <2>2. DirTypeOK'
    BY <1>17 DEF SkipFile, TypeOK, DirTypeOK
  <2>3. ClientTypeOK'
    BY <1>17 DEF SkipFile, TypeOK, ClientTypeOK
  <2>4. RsyncTypeOK'
    BY <1>17 DEF SkipFile, TypeOK, RsyncTypeOK
  <2>. QED  BY <2>1, <2>2, <2>3, <2>4 DEF TypeOK
<1>18. CASE StoreFile
  <2>1. pc' \in PCs
    BY <1>18 DEF StoreFile, TypeOK, PCs
  <2>2. DirTypeOK'
    <3>1. file.name \in Name /\ file.holds \in Content
      BY <1>18 DEF StoreFile, TypeOK, ClientTypeOK
    <3>2. local' \in [Name -> Content \cup {Absent}]
      BY <1>18, <3>1 DEF StoreFile, TypeOK, DirTypeOK
    <3>. QED  BY <1>18, <3>2 DEF StoreFile, TypeOK, DirTypeOK
  <2>3. ClientTypeOK'
    BY <1>18 DEF StoreFile, TypeOK, ClientTypeOK
  <2>4. RsyncTypeOK'
    BY <1>18 DEF StoreFile, TypeOK, RsyncTypeOK
  <2>. QED  BY <2>1, <2>2, <2>3, <2>4 DEF TypeOK
<1>19. CASE EndTransfer
  BY <1>19 DEF EndTransfer, TypeOK, PCs, DirTypeOK, ClientTypeOK, RsyncTypeOK, Modes
<1>20. CASE BreakTransfer
  BY <1>20 DEF BreakTransfer, TypeOK, PCs, DirTypeOK, ClientTypeOK, RsyncTypeOK, Modes
<1>21. CASE CloseStdin
  <2>1. pc' \in PCs
    BY <1>21 DEF CloseStdin, TypeOK, PCs
  <2>2. DirTypeOK'
    BY <1>21 DEF CloseStdin, TypeOK, DirTypeOK
  <2>3. ClientTypeOK'
    BY <1>21 DEF CloseStdin, TypeOK, ClientTypeOK
  <2>4. RsyncTypeOK'
    BY <1>21 DEF CloseStdin, TypeOK, RsyncTypeOK
  <2>. QED  BY <2>1, <2>2, <2>3, <2>4 DEF TypeOK
<1>22. CASE KillChild
  <2>1. pc' \in PCs
    BY <1>22 DEF KillChild, TypeOK, PCs
  <2>2. DirTypeOK'
    BY <1>22 DEF KillChild, TypeOK, DirTypeOK
  <2>3. ClientTypeOK'
    BY <1>22 DEF KillChild, TypeOK, ClientTypeOK
  <2>4. RsyncTypeOK'
    BY <1>22 DEF KillChild, TypeOK, RsyncTypeOK
  <2>. QED  BY <2>1, <2>2, <2>3, <2>4 DEF TypeOK
<1>23. CASE Wait
  <2>1. pc' \in PCs
    BY <1>23 DEF Wait, TypeOK, PCs
  <2>2. DirTypeOK'
    BY <1>23 DEF Wait, TypeOK, DirTypeOK
  <2>3. ClientTypeOK'
    BY <1>23 DEF Wait, TypeOK, ClientTypeOK
  <2>4. RsyncTypeOK'
    BY <1>23 DEF Wait, TypeOK, RsyncTypeOK
  <2>. QED  BY <2>1, <2>2, <2>3, <2>4 DEF TypeOK
<1>24. CASE Close
  <2>1. pc' \in PCs
    BY <1>24 DEF Close, TypeOK, PCs
  <2>2. DirTypeOK'
    BY <1>24 DEF Close, TypeOK, DirTypeOK
  <2>3. ClientTypeOK'
    BY <1>24 DEF Close, TypeOK, ClientTypeOK
  <2>4. RsyncTypeOK'
    BY <1>24 DEF Close, TypeOK, RsyncTypeOK
  <2>. QED  BY <2>1, <2>2, <2>3, <2>4 DEF TypeOK
<1>25. CASE Verify
  BY <1>25 DEF Verify, Received, TypeOK, PCs, DirTypeOK, ClientTypeOK, RsyncTypeOK, Modes
<1>26. CASE EndRun
  <2>1. pc' \in PCs
    BY <1>26 DEF EndRun, TypeOK, PCs
  <2>2. DirTypeOK'
    BY <1>26 DEF EndRun, TypeOK, DirTypeOK
  <2>3. ClientTypeOK'
    BY <1>26 DEF EndRun, TypeOK, ClientTypeOK
  <2>4. RsyncTypeOK'
    <3>1. ticker' # "none" => interval > 0
      BY <1>26 DEF EndRun, TypeOK, ClientTypeOK, RsyncTypeOK, Modes
    <3>. QED  BY <1>26, <3>1 DEF EndRun, TypeOK, RsyncTypeOK
  <2>. QED  BY <2>1, <2>2, <2>3, <2>4 DEF TypeOK
<1>27. CASE TakeTick
  <2>1. pc' \in PCs
    BY <1>27 DEF TakeTick, TypeOK, PCs
  <2>2. DirTypeOK'
    BY <1>27 DEF TakeTick, TypeOK, DirTypeOK
  <2>3. ClientTypeOK'
    BY <1>27 DEF TakeTick, TypeOK, ClientTypeOK
  <2>4. RsyncTypeOK'
    BY <1>27 DEF TakeTick, TypeOK, RsyncTypeOK
  <2>. QED  BY <2>1, <2>2, <2>3, <2>4 DEF TypeOK
<1>28. CASE TakeStop
  BY <1>28 DEF TakeStop, TypeOK, PCs, DirTypeOK, ClientTypeOK, RsyncTypeOK, Modes
<1>29. CASE ServerExit
  <2>1. pc' \in PCs
    BY <1>29 DEF ServerExit, TypeOK, PCs
  <2>2. DirTypeOK'
    BY <1>29 DEF ServerExit, TypeOK, DirTypeOK
  <2>3. ClientTypeOK'
    BY <1>29 DEF ServerExit, TypeOK, ClientTypeOK
  <2>4. RsyncTypeOK'
    BY <1>29 DEF ServerExit, TypeOK, RsyncTypeOK
  <2>. QED  BY <2>1, <2>2, <2>3, <2>4 DEF TypeOK
<1>30. CASE Tick
  BY <1>30 DEF Tick, TypeOK, PCs, DirTypeOK, ClientTypeOK, RsyncTypeOK, Modes
<1>31. CASE Stop
  BY <1>31 DEF Stop, TypeOK, PCs, DirTypeOK, ClientTypeOK, RsyncTypeOK, Modes
<1>32. CASE FallSilent /\ UNCHANGED rsyncVars
  BY <1>32 DEF FallSilent, TypeOK, PCs, DirTypeOK, ClientTypeOK, RsyncTypeOK, Modes
<1>. QED  BY <1>1, <1>2, <1>3, <1>4, <1>5, <1>6, <1>7, <1>8, <1>9, <1>10, <1>11, <1>12,
             <1>13, <1>14, <1>15, <1>16, <1>17, <1>18, <1>19, <1>20, <1>21, <1>22, <1>23, <1>24,
             <1>25, <1>26, <1>27, <1>28, <1>29, <1>30, <1>31, <1>32
          DEF ClientStep, SftpStep, RsyncStep

(***************************************************************************)
(* And the rest of the invariant.                                          *)
(***************************************************************************)

\* Every step of a command, of its server and of its environment but the copy job.
LEMMA CommandKeepsRest ==
    ASSUME DirAssumption, ClientAssumption, Inv, TypeOK',
           \/ ClientStep \/ TakeStop \/ ServerExit \/ Tick \/ Stop
           \/ FallSilent /\ UNCHANGED rsyncVars
    PROVE  (DirInv /\ Modes /\ Closed /\ Ticking /\ Pulling /\ Picking /\ CleanRunIsCurrent)'
<1>. USE DEF Inv, dirVars, clientVars, daemonVars, procVars, listVars, rsyncVars, sftpVars, Inject
<1>1. CASE Startup /\ UNCHANGED rsyncVars
  BY <1>1 DEF Startup, Usable, NewAccepts, IntervalOf, Env, TypeOK, ClientTypeOK,
        DirInv, Modes, RsyncPcs, SftpPcs, Closed, Ticking,
        Pulling, Receiving, AllFresh, Fresh, Linked, Picking, Picked, CleanRunIsCurrent
<1>2. CASE Dial /\ UNCHANGED rsyncVars
  BY <1>2 DEF Dial, DirInv, Modes, RsyncPcs, SftpPcs, Closed, Ticking,
        Pulling, Receiving, AllFresh, Fresh, Linked, Picking, Picked, CleanRunIsCurrent
<1>3. CASE FailDial /\ UNCHANGED rsyncVars
  BY <1>3 DEF FailDial, DirInv, Modes, RsyncPcs, SftpPcs, Closed, Ticking,
        Pulling, Receiving, AllFresh, Fresh, Linked, Picking, Picked, CleanRunIsCurrent
<1>4. CASE List /\ UNCHANGED rsyncVars
  <2>1. DirInv' /\ Modes' /\ Closed' /\ Ticking'
    BY <1>4 DEF List, Fail, DirInv, Modes, RsyncPcs, SftpPcs, Closed, Ticking
  <2>2. Pulling' /\ CleanRunIsCurrent'
    BY <1>4 DEF List, Fail, Pulling, CleanRunIsCurrent
  <2>3. Picking'
    <3>. PICK names \in Listings : Listed(names)
      BY <1>4 DEF List, Listed
    <3>1. CASE names = {}
      BY <1>4, <3>1 DEF List, Listed, Fail, Picking
    <3>2. CASE names # {}
      <4>. DEFINE n == Latest(names)
      <4>1. PICK c \in Possible(n) : file' = [name |-> n, holds |-> c]
        BY <3>2 DEF Listed
      <4>2. from' = Owed(n) /\ pc' = "open" /\ zipped' = zipped
        BY <1>4, <3>2 DEF List, Listed
      <4>3. n \in Listing \cup LinksInMaking
        <5>1. names \in SUBSET Name /\ names \subseteq Listing \cup LinksInMaking
          BY ListingsTyped
        <5>. QED  BY <3>2, <5>1, LatestIsGreatest
      <4>4. n \in Name /\ c \in Content /\ (n.at # 0 => c.at = n.at)
        BY <4>3, PossibleTyped
      <4>5. n.id \in zipped => n.at # 0 /\ \A t \in published[n.id] : t <= n.at
        BY <3>2, PickedIsNewest
      <4>. HIDE DEF n
      <4>6. \A i \in Ids : from'[i] # Absent => i = n.id /\ from'[i] \in published[i]
        BY <4>2, <4>4, OwedTyped
      <4>7. n.id \in zipped => \A i \in Ids : from'[i] # Absent => n.at >= from'[i]
        <5>. SUFFICES ASSUME n.id \in zipped, NEW i \in Ids, from'[i] # Absent
             PROVE  n.at >= from'[i]
          OBVIOUS
        <5>. QED  BY <4>5, <4>6
      <4>8. Picked'
        BY <4>1, <4>2, <4>4, <4>5, <4>6, <4>7 DEF Picked
      <4>. QED  BY <4>2, <4>8 DEF Picking
    <3>. QED  BY <3>1, <3>2
  <2>. QED  BY <2>1, <2>2, <2>3
<1>5. CASE FailList /\ UNCHANGED rsyncVars
  BY <1>5 DEF FailList, Fail, DirInv, Modes, RsyncPcs, SftpPcs, Closed, Ticking,
        Pulling, Receiving, AllFresh, Fresh, Linked, Picking, Picked, CleanRunIsCurrent
<1>6. CASE Open /\ UNCHANGED rsyncVars
  <2>1. DirInv' /\ Modes' /\ Closed' /\ Ticking'
    BY <1>6 DEF Open, Fail, DirInv, Modes, RsyncPcs, SftpPcs, Closed, Ticking
  <2>2. Pulling' /\ CleanRunIsCurrent'
    BY <1>6 DEF Open, Fail, Pulling, CleanRunIsCurrent
  <2>3. Picking'
    <3>1. CASE Opens
      <4>1. PICK c \in Possible(file.name) : file' = [file EXCEPT !.holds = c]
        BY <3>1 DEF Opens
      <4>2. c \in Content /\ (file.name.at # 0 => c.at = file.name.at)
        BY <3>1, PossibleTyped DEF Opens
      <4>3. file' \in [name : Name, holds : Content] /\ file'.name = file.name /\ file'.holds = c
        BY <1>6, <4>1, <4>2 DEF Open, Picking, Picked
      <4>4. from' = from /\ zipped' = zipped /\ pc' = "copy"
        BY <1>6, <3>1 DEF Open, Opens
      <4>5. Picked'
        BY <1>6, <4>2, <4>3, <4>4 DEF Open, Picking, Picked
      <4>. QED  BY <4>4, <4>5 DEF Picking
    <3>2. CASE Fail /\ UNCHANGED <<file, local>>
      BY <1>6, <3>2 DEF Open, Fail, Picking
    <3>. QED  BY <1>6, <3>1, <3>2 DEF Open, Opens
  <2>. QED  BY <2>1, <2>2, <2>3
<1>7. CASE FailOpen /\ UNCHANGED rsyncVars
  BY <1>7 DEF FailOpen, Fail, DirInv, Modes, RsyncPcs, SftpPcs, Closed, Ticking,
        Pulling, Receiving, AllFresh, Fresh, Linked, Picking, Picked, CleanRunIsCurrent
<1>8. CASE Copy /\ UNCHANGED rsyncVars
  <2>1. DirInv' /\ Modes' /\ Closed' /\ Ticking'
    BY <1>8 DEF Copy, DirInv, Modes, RsyncPcs, SftpPcs, Closed, Ticking
  <2>2. Pulling' /\ CleanRunIsCurrent'
    BY <1>8 DEF Copy, Pulling, CleanRunIsCurrent
  <2>3. Picking'
    BY <1>8 DEF Copy, Picking, Picked, TypeOK, DirTypeOK
  <2>. QED  BY <2>1, <2>2, <2>3
<1>9. CASE FailCopy /\ UNCHANGED rsyncVars
  BY <1>9 DEF FailCopy, Fail, DirInv, Modes, RsyncPcs, SftpPcs, Closed, Ticking,
        Pulling, Receiving, AllFresh, Fresh, Linked, Picking, Picked, CleanRunIsCurrent
<1>10. CASE Check /\ UNCHANGED rsyncVars
  BY <1>10 DEF Check, Fail, Sound, DirInv, Modes, RsyncPcs, SftpPcs, Closed, Ticking,
        Pulling, Receiving, AllFresh, Fresh, Linked, Picking, Picked, CleanRunIsCurrent
<1>11. CASE Exit /\ UNCHANGED rsyncVars
  BY <1>11 DEF Exit, DirInv, Modes, RsyncPcs, SftpPcs, Closed, Ticking,
        Pulling, Receiving, AllFresh, Fresh, Linked, Picking, Picked, CleanRunIsCurrent
<1>12. CASE NewSession
  <2>1. DirInv' /\ Modes' /\ Closed' /\ Ticking'
    BY <1>12 DEF NewSession, Started, DirInv, Modes, RsyncPcs, SftpPcs, Closed, Ticking
  <2>2. Pulling'
    <3>1. file' = Absent /\ local' = local /\ latest' = latest /\ from' = latest /\ list' = Linked
      BY <1>12 DEF NewSession, MakeList, Modes, RsyncPcs, Closed
    <3>2. \A i \in Ids : latest[i] # Absent => i \in Linked /\ latest[i] <= latest[i]
      BY DEF Linked, TypeOK, DirTypeOK, Time
    <3>3. Receiving'
      BY <3>1, <3>2 DEF Receiving, Linked
    <3>. QED  BY <1>12, <3>3 DEF NewSession, Pulling
  <2>3. Picking' /\ CleanRunIsCurrent'
    BY <1>12 DEF NewSession, Picking, CleanRunIsCurrent
  <2>. QED  BY <2>1, <2>2, <2>3
<1>13. CASE FailSession
  BY <1>13 DEF FailSession, DirInv, Modes, RsyncPcs, SftpPcs, Closed, Ticking,
        Pulling, Receiving, AllFresh, Fresh, Linked, Picking, Picked, CleanRunIsCurrent
<1>14. CASE Spawn
  <2>1. DirInv' /\ Modes' /\ Closed' /\ Ticking'
    BY <1>14 DEF Spawn, Started, DirInv, Modes, RsyncPcs, SftpPcs, Closed, Ticking
  <2>2. Pulling'
    <3>1. file' = Absent /\ local' = local /\ latest' = latest /\ from' = latest /\ list' = Linked
      BY <1>14 DEF Spawn, MakeList, Modes, RsyncPcs, Closed
    <3>2. \A i \in Ids : latest[i] # Absent => i \in Linked /\ latest[i] <= latest[i]
      BY DEF Linked, TypeOK, DirTypeOK, Time
    <3>3. Receiving'
      BY <3>1, <3>2 DEF Receiving, Linked
    <3>. QED  BY <1>14, <3>3 DEF Spawn, Pulling
  <2>3. Picking' /\ CleanRunIsCurrent'
    BY <1>14 DEF Spawn, Picking, CleanRunIsCurrent
  <2>. QED  BY <2>1, <2>2, <2>3
<1>15. CASE FailSpawn
  BY <1>15 DEF FailSpawn, DirInv, Modes, RsyncPcs, SftpPcs, Closed, Ticking,
        Pulling, Receiving, AllFresh, Fresh, Linked, Picking, Picked, CleanRunIsCurrent
<1>16. CASE SendFile
  <2>1. DirInv' /\ Modes' /\ Closed' /\ Ticking'
    BY <1>16 DEF SendFile, DirInv, Modes, RsyncPcs, SftpPcs, Closed, Ticking
  <2>2. Pulling'
    <3>1. PICK i \in list : file' = [name |-> LinkName(i), holds |-> HeldBy(i)]
      BY <1>16 DEF SendFile
    <3>2. i \in Linked /\ i \in Ids
      BY <1>16, <3>1 DEF SendFile, Pulling, Receiving, Linked
    <3>3. HeldBy(i).at = latest[i]
      BY <3>2, HeldTyped
    <3>4. from[i] # Absent => HeldBy(i).at >= from[i]
      BY <1>16, <3>2, <3>3 DEF SendFile, Pulling, Receiving, TypeOK, DirTypeOK, ClientTypeOK, Time
    <3>. QED  BY <1>16, <3>1, <3>4 DEF SendFile, Pulling, Receiving, AllFresh, Fresh, Linked
  <2>3. Picking' /\ CleanRunIsCurrent'
    BY <1>16 DEF SendFile, Picking, CleanRunIsCurrent
  <2>. QED  BY <2>1, <2>2, <2>3
<1>17. CASE SkipFile
  BY <1>17 DEF SkipFile, DirInv, Modes, RsyncPcs, SftpPcs, Closed, Ticking,
        Pulling, Receiving, AllFresh, Fresh, Linked, Picking, Picked, CleanRunIsCurrent
<1>18. CASE StoreFile
  <2>1. DirInv' /\ Modes' /\ Closed' /\ Ticking'
    BY <1>18 DEF StoreFile, DirInv, Modes, RsyncPcs, SftpPcs, Closed, Ticking
  <2>2. Pulling'
    <3>1. PICK i \in list : file.name = LinkName(i) /\ (from[i] # Absent => file.holds.at >= from[i])
      BY <1>18 DEF StoreFile, Pulling, Receiving
    <3>2. i \in Ids /\ file.name \in Name /\ file.holds \in Content /\ file.holds # Absent
      BY <1>18, <3>1 DEF StoreFile, TypeOK, ClientTypeOK, RsyncTypeOK, DirAssumption
    <3>3. list' = list \ {i} /\ local' = [local EXCEPT ![LinkName(i)] = file.holds] /\ file' = Absent
      BY <1>18, <3>1 DEF StoreFile, LinkName
    <3>4. ASSUME NEW j \in Ids, from[j] # Absent, j = i \/ Fresh(j)
          PROVE  Fresh(j)'
      <4>1. from' = from /\ LinkName(j) \in Name
        BY <1>18 DEF StoreFile, LinkName, Name
      <4>2. CASE j = i
        BY <3>1, <3>2, <3>3, <3>4, <4>1, <4>2 DEF Fresh, TypeOK, DirTypeOK, LinkName
      <4>3. CASE j # i
        <5>1. LinkName(j) # LinkName(i)
          BY <4>3 DEF LinkName
        <5>2. local'[LinkName(j)] = local[LinkName(j)]
          BY <3>3, <4>1, <5>1 DEF TypeOK, DirTypeOK
        <5>. QED  BY <3>4, <4>1, <4>3, <5>2 DEF Fresh, LinkName
      <4>. QED  BY <4>2, <4>3
    <3>5. Receiving'
      BY <1>18, <3>3, <3>4 DEF StoreFile, Pulling, Receiving, Linked
    <3>. QED  BY <1>18, <3>5 DEF StoreFile, Pulling
  <2>3. Picking' /\ CleanRunIsCurrent'
    BY <1>18 DEF StoreFile, Picking, CleanRunIsCurrent
  <2>. QED  BY <2>1, <2>2, <2>3
<1>19. CASE EndTransfer
  BY <1>19 DEF EndTransfer, DirInv, Modes, RsyncPcs, SftpPcs, Closed, Ticking,
        Pulling, Receiving, AllFresh, Fresh, Linked, Picking, Picked, CleanRunIsCurrent
<1>20. CASE BreakTransfer
  BY <1>20 DEF BreakTransfer, DirInv, Modes, RsyncPcs, SftpPcs, Closed, Ticking,
        Pulling, Receiving, AllFresh, Fresh, Linked, Picking, Picked, CleanRunIsCurrent
<1>21. CASE CloseStdin
  BY <1>21 DEF CloseStdin, DirInv, Modes, RsyncPcs, SftpPcs, Closed, Ticking,
        Pulling, Receiving, AllFresh, Fresh, Linked, Picking, Picked, CleanRunIsCurrent
<1>22. CASE KillChild
  BY <1>22 DEF KillChild, DirInv, Modes, RsyncPcs, SftpPcs, Closed, Ticking,
        Pulling, Receiving, AllFresh, Fresh, Linked, Picking, Picked, CleanRunIsCurrent
<1>23. CASE Wait
  BY <1>23 DEF Wait, DirInv, Modes, RsyncPcs, SftpPcs, Closed, Ticking,
        Pulling, Receiving, AllFresh, Fresh, Linked, Picking, Picked, CleanRunIsCurrent
<1>24. CASE Close
  <2>1. DirInv' /\ Modes' /\ Ticking'
    BY <1>24 DEF Close, DirInv, Modes, RsyncPcs, SftpPcs, Ticking
  <2>2. Closed'
    <3>1. cmd' = cmd /\ pc' \in {"verify", "rest"} /\ ~conn' /\ ~held' /\ file' = file /\ pc = "close"
      BY <1>24 DEF Close
    <3>2. cmd # "sftp" => proc' = "none"
      BY <1>24 DEF Close, Closed
    <3>3. cmd # "sftp" => ~stdin'
      <4>1. stdin' = (stdin /\ onMachine /\ ~held)
        BY <1>24 DEF Close
      <4>2. cmd # "sftp" /\ ~held => ~stdin
        BY <1>24 DEF Closed
      <4>. QED  BY <4>1, <4>2, Zenon
    <3>4. cmd # "sftp" => file = Absent
      BY <3>1 DEF Closed
    <3>. QED  BY <3>1, <3>2, <3>3, <3>4 DEF Closed
  <2>3. Pulling'
    <3>1. pc = "close" /\ UNCHANGED <<local, from>> /\ (err' \/ err' = err)
      BY <1>24 DEF Close
    <3>2. pc' = "rest" \/ (pc' = "verify" /\ ~err')
      BY <1>24 DEF Close
    <3>3. AllFresh' = AllFresh
      BY <3>1 DEF AllFresh, Fresh
    <3>. QED  BY <3>1, <3>2, <3>3 DEF Pulling
  <2>4. Picking'
    BY <1>24 DEF Close, Picking
  <2>5. CleanRunIsCurrent'
    <3>1. pc' = "verify" \/ outcome' = "failed"
      BY <1>24 DEF Close
    <3>. QED  BY <3>1 DEF CleanRunIsCurrent
  <2>. QED  BY <2>1, <2>2, <2>3, <2>4, <2>5
<1>25. CASE Verify
  <2>1. DirInv' /\ Modes' /\ Closed' /\ Ticking'
    BY <1>25 DEF Verify, Received, DirInv, Modes, RsyncPcs, SftpPcs, Closed, Ticking
  <2>2. Pulling' /\ Picking'
    BY <1>25 DEF Verify, Pulling, Picking
  <2>3. CleanRunIsCurrent'
    <3>. SUFFICES ASSUME outcome' = "ok", NEW i \in Ids, from[i] # Absent
         PROVE  \E n \in Name : /\ n.id = i /\ local'[n] # Absent
                                /\ local'[n].form = "whole" /\ local'[n].at >= from[i]
      BY <1>25 DEF Verify, CleanRunIsCurrent
    <3>1. LinkName(i) \in Name /\ LinkName(i).at = 0 /\ LinkName(i).id = i /\ ~LinkName(i).tmp
      BY DEF LinkName, Name
    <3>2. Fresh(i)
      BY <1>25 DEF Verify, Pulling, AllFresh
    <3>3. local[LinkName(i)].form = "whole"
      BY <1>25, <3>1, <3>2 DEF Verify, Received, Fresh
    <3>4. local'[LinkName(i)] = local[LinkName(i)]
      BY <1>25, <3>1, <3>3 DEF Verify
    <3>. QED  BY <3>1, <3>2, <3>3, <3>4 DEF Fresh
  <2>. QED  BY <2>1, <2>2, <2>3
<1>26. CASE EndRun
  BY <1>26 DEF EndRun, DirInv, Modes, RsyncPcs, SftpPcs, Closed, Ticking,
        Pulling, Receiving, AllFresh, Fresh, Linked, Picking, Picked, CleanRunIsCurrent
<1>27. CASE TakeTick
  BY <1>27 DEF TakeTick, DirInv, Modes, RsyncPcs, SftpPcs, Closed, Ticking,
        Pulling, Receiving, AllFresh, Fresh, Linked, Picking, Picked, CleanRunIsCurrent
<1>28. CASE TakeStop
  <2>1. DirInv' /\ Modes' /\ Closed' /\ Ticking'
    BY <1>28 DEF TakeStop, DirInv, Modes, RsyncPcs, SftpPcs, Closed, Ticking
  <2>2. Pulling' /\ CleanRunIsCurrent'
    BY <1>28 DEF TakeStop, Pulling, CleanRunIsCurrent, AllFresh, Fresh
  <2>3. Picking'
    BY <1>28 DEF TakeStop, Picking, Picked, TypeOK, DirTypeOK
  <2>. QED  BY <2>1, <2>2, <2>3
<1>29. CASE ServerExit
  BY <1>29 DEF ServerExit, DirInv, Modes, RsyncPcs, SftpPcs, Closed, Ticking,
        Pulling, Receiving, AllFresh, Fresh, Linked, Picking, Picked, CleanRunIsCurrent
<1>30. CASE Tick
  BY <1>30 DEF Tick, DirInv, Modes, RsyncPcs, SftpPcs, Closed, Ticking,
        Pulling, Receiving, AllFresh, Fresh, Linked, Picking, Picked, CleanRunIsCurrent
<1>31. CASE Stop
  BY <1>31 DEF Stop, DirInv, Modes, RsyncPcs, SftpPcs, Closed, Ticking,
        Pulling, Receiving, AllFresh, Fresh, Linked, Picking, Picked, CleanRunIsCurrent
<1>32. CASE FallSilent /\ UNCHANGED rsyncVars
  BY <1>32 DEF FallSilent, DirInv, Modes, RsyncPcs, SftpPcs, Closed, Ticking,
        Pulling, Receiving, AllFresh, Fresh, Linked, Picking, Picked, CleanRunIsCurrent
<1>. QED  BY <1>1, <1>2, <1>3, <1>4, <1>5, <1>6, <1>7, <1>8, <1>9, <1>10, <1>11, <1>12,
             <1>13, <1>14, <1>15, <1>16, <1>17, <1>18, <1>19, <1>20, <1>21, <1>22, <1>23, <1>24,
             <1>25, <1>26, <1>27, <1>28, <1>29, <1>30, <1>31, <1>32
          DEF ClientStep, SftpStep, RsyncStep

\* Every step of the copy job.
LEMMA CopyJobKeeps ==
    ASSUME DirAssumption, Inv, DirStep,
           UNCHANGED <<local, clientVars, pc, conn, silent, file, from, outcome, rsyncVars>>
    PROVE  Inv'
<1>. USE DEF Inv, dirVars, clientVars, daemonVars, procVars, listVars, rsyncVars, Inject
<1>1. PICK i \in Ids : Stage(i) \/ Publish(i) \/ Point(i)
  BY DEF DirStep
<1>2. published[i] \in SUBSET Time /\ latest[i] \in Time \cup {Absent}
      /\ staging[i] \in Time \cup {Absent}
  BY DEF TypeOK, DirTypeOK
<1>3. DirTypeOK' /\ zipped' = zipped /\ DirInv'
      /\ \A j \in Ids : latest[j] # Absent => latest'[j] # Absent /\ latest[j] <= latest'[j]
  <2>1. \A j \in Ids : latest[j] # Absent => latest[j] <= latest[j]
    <3>1. \A t \in Time : t <= t
      BY DEF Time
    <3>. QED  BY <3>1 DEF TypeOK, DirTypeOK
  <2>2. CASE Stage(i)
    <3>1. Cardinality(published[i]) + 1 \in Time
      BY <1>2, <2>2, StageInTime DEF Stage
    <3>2. DirTypeOK'
      BY <2>2, <3>1 DEF Stage, TypeOK, DirTypeOK
    <3>. QED  BY <2>1, <2>2, <3>2 DEF Stage, DirInv
  <2>3. CASE Publish(i)
    <3>1. published' = [published EXCEPT ![i] = @ \cup {staging[i]}] /\ latest' = latest
          /\ zipped' = zipped /\ staging' = [staging EXCEPT ![i] = Absent]
      BY <2>3 DEF Publish, Store!Publish
    <3>2. staging[i] \in Time
      BY <1>2, <2>3 DEF Publish
    <3>3. flawed' \subseteq Ids \X Time \X {"empty", "broken"} /\ spent' \in 0 .. MaxEvents
      BY <2>3, <3>2 DEF Publish, TypeOK, DirTypeOK, DirAssumption
    <3>4. published' \in [Ids -> SUBSET Time]
      BY <3>1, <3>2 DEF TypeOK, DirTypeOK
    <3>5. DirTypeOK'
      BY <3>1, <3>3, <3>4 DEF TypeOK, DirTypeOK
    <3>6. \A j \in Ids : published[j] \subseteq published'[j]
      BY <3>1 DEF TypeOK, DirTypeOK
    <3>. QED  BY <2>1, <3>1, <3>5, <3>6 DEF DirInv
  <2>4. CASE Point(i)
    <3>1. published[i] # {} /\ latest' = [latest EXCEPT ![i] = Max(published[i])]
          /\ published' = published /\ i \notin zipped
          /\ UNCHANGED <<zipped, flawed, staging, spent>>
      BY <2>4 DEF Point, Store!Point, Store!Max, Max
    <3>2. Max(published[i]) \in published[i] /\ \A t \in published[i] : t <= Max(published[i])
      BY <1>2, <3>1, NewestIsMax
    <3>3. Max(published[i]) # Absent
      BY <1>2, <3>2 DEF DirAssumption, Time
    <3>4. latest' \in [Ids -> Time \cup {Absent}]
      BY <1>2, <3>1, <3>2 DEF TypeOK, DirTypeOK
    <3>5. DirTypeOK'
      BY <3>1, <3>4 DEF TypeOK, DirTypeOK
    <3>6. \A j \in Ids : latest'[j] = IF j = i THEN Max(published[i]) ELSE latest[j]
      BY <3>1 DEF TypeOK, DirTypeOK
    <3>7. DirInv'
      BY <3>1, <3>2, <3>6 DEF DirInv
    <3>8. latest[i] # Absent => latest[i] <= Max(published[i])
      BY <3>2 DEF DirInv
    <3>. QED  BY <2>1, <3>1, <3>3, <3>5, <3>6, <3>7, <3>8
  <2>. QED  BY <1>1, <2>2, <2>3, <2>4
<1>4. TypeOK'
  BY <1>3 DEF TypeOK, ClientTypeOK, RsyncTypeOK
<1>5. Modes' /\ Closed' /\ Ticking' /\ Picking' /\ CleanRunIsCurrent'
  BY <1>3 DEF Modes, Closed, Ticking, Picking, Picked, CleanRunIsCurrent
<1>6. Pulling'
  <2>1. AllFresh' = AllFresh /\ \A j \in Ids : Fresh(j)' = Fresh(j)
    BY DEF AllFresh, Fresh
  <2>2. Linked \subseteq Linked'
    BY <1>3 DEF Linked
  <2>3. ASSUME Receiving
        PROVE  Receiving'
    <3>1. \A j \in Ids : from[j] # Absent => latest'[j] # Absent /\ from[j] <= latest'[j]
      <4>. SUFFICES ASSUME NEW j \in Ids, from[j] # Absent
           PROVE  latest'[j] # Absent /\ from[j] <= latest'[j]
        OBVIOUS
      <4>1. latest[j] # Absent /\ from[j] <= latest[j] /\ latest'[j] # Absent /\ latest[j] <= latest'[j]
        BY <1>3, <2>3 DEF Receiving
      <4>2. \A t \in Time : t \in Int
        BY DEF Time
      <4>3. from[j] \in Int /\ latest[j] \in Int /\ latest'[j] \in Int
        BY <1>3, <4>1, <4>2 DEF TypeOK, DirTypeOK, ClientTypeOK
      <4>. QED  BY <4>1, <4>3
    <3>. QED  BY <2>1, <2>2, <2>3, <3>1 DEF Receiving
  <2>. QED  BY <2>1, <2>3 DEF Pulling
<1>. QED  BY <1>3, <1>4, <1>5, <1>6

-----------------------------------------------------------------------------
(* The theorems.                                                           *)

\* At the start nothing is there, nothing is open, and nothing is owed.
LEMMA InitInv ==
    ASSUME DirAssumption, ClientAssumption, Init
    PROVE  Inv
<1>. USE DEF Init, DirInit, ClientInit, RsyncInit
<1>1. PICK s \in Setups : cmd = s.cmd /\ onMachine = s.onMachine /\ zipped = s.zipped
  OBVIOUS
<1>2. cmd \in {"rsync", "daemon", "sftp"} /\ onMachine \in BOOLEAN /\ zipped \in SUBSET Ids
      /\ (cmd = "sftp" => ~onMachine)
  <2>1. s \in [cmd : {"rsync", "daemon", "sftp"}, onMachine : BOOLEAN, zipped : SUBSET Ids]
    BY DEF ClientAssumption
  <2>. QED  BY <1>1, <2>1 DEF ClientAssumption
<1>3. DirTypeOK
  BY <1>2 DEF DirTypeOK, DirAssumption
<1>4. ClientTypeOK
  <2>1. from \in [Ids -> Time \cup {Absent}]
    BY DEF Nothing
  <2>2. file \in [name : Name, holds : Content] \cup {Absent}
    OBVIOUS
  <2>3. interval \in Int
    OBVIOUS
  <2>4. conn \in BOOLEAN /\ silent \in BOOLEAN /\ outcome \in {"none", "ok", "failed"}
    OBVIOUS
  <2>. QED  BY <1>2, <2>1, <2>2, <2>3, <2>4, Zenon DEF ClientTypeOK
<1>5. RsyncTypeOK /\ pc \in PCs
  BY DEF RsyncTypeOK, PCs
<1>6. DirInv /\ Modes /\ Closed /\ Ticking /\ Pulling /\ Picking /\ CleanRunIsCurrent
  BY <1>2 DEF DirInv, Modes, RsyncPcs, SftpPcs, Closed, Ticking, Pulling, Picking, CleanRunIsCurrent
<1>. QED  BY <1>3, <1>4, <1>5, <1>6 DEF Inv, TypeOK

\* The invariant of the pull commands (the server's list, the links that move
\* under it, and what has been received), and each of the properties from it.
THEOREM Inductive == Spec => []Inv
<1>. USE DirAssumption, ClientAssumption
<1>1. Init => Inv
  BY InitInv
<1>2. Inv /\ [Next]_vars => Inv'
  <2>. SUFFICES ASSUME Inv, [Next]_vars PROVE Inv'
    OBVIOUS
  <2>1. CASE DirStep /\ UNCHANGED <<local, clientVars, pc, conn, silent, file, from, outcome,
                                   rsyncVars>>
    BY <2>1, CopyJobKeeps
  <2>2. CASE ClientStep \/ TakeStop \/ ServerExit \/ Tick \/ Stop
                \/ (FallSilent /\ UNCHANGED rsyncVars)
    <3>1. TypeOK'
      BY <2>2, CommandKeepsTypes
    <3>. QED  BY <2>2, <3>1, CommandKeepsRest DEF Inv
  <2>3. CASE UNCHANGED vars
    <3>. USE <2>3 DEF vars, dirVars, clientVars, rsyncVars, daemonVars, procVars, listVars
    <3>1. TypeOK'
      BY DEF Inv, TypeOK, DirTypeOK, ClientTypeOK, RsyncTypeOK
    <3>2. DirInv' /\ Modes' /\ Closed' /\ Ticking' /\ CleanRunIsCurrent'
      BY DEF Inv, DirInv, Modes, Closed, Ticking, CleanRunIsCurrent
    <3>3. Pulling' /\ Picking'
      BY DEF Inv, Pulling, Receiving, AllFresh, Fresh, Linked, Picking, Picked
    <3>. QED  BY <3>1, <3>2, <3>3 DEF Inv
  <2>4. Next \/ UNCHANGED vars
    OBVIOUS
  <2>. QED  BY <2>1, <2>2, <2>3, <2>4, Zenon DEF Next
<1>. QED  BY <1>1, <1>2, PTL DEF Spec

\* Types; of these, that a ticker is only made with a positive interval (startup
\* refuses the daemon without one) is more than a type: NewTicker panics.
THEOREM TypeCorrect == Spec => []TypeOK
<1>1. Inv => TypeOK
  BY DEF Inv
<1>. QED  BY <1>1, Inductive, PTL

\* A run that reports no error has brought what it owed.
THEOREM CleanRuns == Spec => []CleanRunIsCurrent
<1>1. Inv => CleanRunIsCurrent
  BY DEF Inv
<1>. QED  BY <1>1, Inductive, PTL

\* Between two runs nothing is left open, by any error path.
THEOREM AllClosed == Spec => []NothingLeftOpen
<1>1. Inv => NothingLeftOpen
  BY DEF Inv, Closed, NothingLeftOpen
<1>. QED  BY <1>1, Inductive, PTL
=============================================================================
