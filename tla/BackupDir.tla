------------------------------ MODULE BackupDir ------------------------------
(***************************************************************************)
(* What the pull clients (src/rsync, src/cmd/rsync, src/cmd/sftp) work on: *)
(* the backup directory of the source machine, in which a local copy job   *)
(* stages and publishes snapshots and moves the latest links, exactly as   *)
(* SnapshotStore promises, and the destination directory of their own      *)
(* machine.                                                                *)
(***************************************************************************)
EXTENDS Integers, FiniteSetsExt

CONSTANTS
    Ids,        \* backup ids in the directory, numbered in name order
    LatestRank, \* where names that begin with "latest-" come among the ids
    MaxTime,    \* bound: snapshots per id, numbered in time order
    Absent,     \* no file
    Events,     \* what the environment may do
    MaxEvents   \* bound: how much of it happens in a behaviour

Time == 1 .. MaxTime

\* What a file is: the snapshot it copies, whole, or of no use.
Forms == {"whole", "empty", "broken", "part"}
Content == [at : Time, form : Forms]

EventKinds == {"flaw", "dial", "session", "spawn", "transfer", "sender",
               "exit", "verify", "list", "open", "copy", "silent"}

ASSUME DirAssumption ==
    /\ Ids \subseteq Int /\ IsFiniteSet(Ids) /\ LatestRank \in Int \ Ids
    /\ MaxTime \in Nat /\ MaxEvents \in Nat
    /\ Events \subseteq EventKinds
    /\ Absent \notin Int /\ Absent \notin Content

VARIABLES
    zipped,    \* the ids of compressed snapshots, which get no link
    published, \* published[i]: the snapshots of id i
    latest,    \* latest[i]: the one the link latest-<i> names
    flawed,    \* the snapshots that are empty or broken, as <<i, t, form>>
    staging,   \* staging[i]: the snapshot that is written under a .tmp name
    local,     \* local[n]: the file of that name in the destination directory
    spent      \* injected events so far

dirVars == <<zipped, published, latest, flawed, staging>>

\* A file name: a snapshot or (at = 0) the link of an id, or the same with .tmp.
Name == [id : Ids, at : {0} \cup Time, tmp : BOOLEAN]
LinkName(i) == [id |-> i, at |-> 0, tmp |-> FALSE]

DirTypeOK ==
    /\ zipped \subseteq Ids
    /\ published \in [Ids -> SUBSET Time]
    /\ latest \in [Ids -> Time \cup {Absent}]
    /\ flawed \subseteq Ids \X Time \X {"empty", "broken"}
    /\ staging \in [Ids -> Time \cup {Absent}]
    /\ local \in [Name -> Content \cup {Absent}]
    /\ spent \in 0 .. MaxEvents

DirInit ==
    /\ published = [i \in Ids |-> {}]
    /\ latest = [i \in Ids |-> Absent]
    /\ flawed = {}
    /\ staging = [i \in Ids |-> Absent]
    /\ local = [n \in Name |-> Absent]
    /\ spent = 0

Inject(kind) ==
    /\ kind \in Events /\ spent < MaxEvents
    /\ spent' = spent + 1

Store == INSTANCE SnapshotStore WITH Place <- Ids

\* The form of a published snapshot.
FormOf(i, t) == IF \E f \in {"empty", "broken"} : <<i, t, f>> \in flawed
                THEN CHOOSE f \in {"empty", "broken"} : <<i, t, f>> \in flawed
                ELSE "whole"

\* The names in the directory.
Listing ==
    {n \in Name :
        \/ n.tmp /\ n.at # 0 /\ staging[n.id] = n.at
        \/ ~n.tmp /\ n.at \in published[n.id]
        \/ n = LinkName(n.id) /\ latest[n.id] # Absent}

\* A link that is made under its .tmp name; linkLatest renames it at once, but
\* a crash leaves it until the next one.
LinksInMaking ==
    {n \in Name : n.at = 0 /\ n.tmp /\ n.id \notin zipped /\ published[n.id] # {}}

\* What may be found in the directory.
Listings == {Listing \cup made : made \in SUBSET LinksInMaking}

\* What the file of a name may be now; a snapshot's .tmp may be complete already.
Possible(n) ==
    IF n.tmp /\ n.at # 0 THEN [at : {n.at}, form : {"part", "whole"}]
    ELSE {[at |-> t, form |-> FormOf(n.id, t)] :
             t \in IF n.at # 0 THEN {n.at}
                   ELSE IF n.tmp THEN published[n.id] ELSE {latest[n.id]}}

-----------------------------------------------------------------------------
(* The local copy job.                                                     *)

\* A snapshot is staged, in time order.
Stage(i) ==
    /\ staging[i] = Absent /\ Cardinality(published[i]) < MaxTime
    /\ staging' = [staging EXCEPT ![i] = Cardinality(published[i]) + 1]
    /\ UNCHANGED <<zipped, published, latest, flawed, spent>>

\* It is renamed to its name; a power loss may have emptied or broken it.
Publish(i) ==
    /\ staging[i] # Absent
    /\ Store!Publish(i, staging[i])
    /\ staging' = [staging EXCEPT ![i] = Absent]
    /\ \/ UNCHANGED <<flawed, spent>>
       \/ /\ Inject("flaw")
          /\ \E f \in {"empty", "broken"} :
                flawed' = flawed \cup {<<i, staging[i], f>>}
    /\ UNCHANGED zipped

\* linkLatest, for a plain snapshot.
Point(i) ==
    /\ i \notin zipped /\ Store!Point(i)
    /\ UNCHANGED <<zipped, flawed, staging, spent>>

DirStep == \E i \in Ids : Stage(i) \/ Publish(i) \/ Point(i)
=============================================================================
