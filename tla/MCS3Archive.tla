---------------------------- MODULE MCS3Archive ----------------------------
(***************************************************************************)
(* Small instances of S3Archive.                                           *)
(***************************************************************************)
EXTENDS S3Archive, TLC

\* An encrypted file at a fixed path, and the plain newest of a prefix.
PathAndPrefix == 1 :> [mode |-> "path", age |-> TRUE]
              @@ 2 :> [mode |-> "prefix", age |-> FALSE]

\* The second download entry pulls the first upload entry's backups; the first
\* is deactivated.
PullPath == 1 :> Absent @@ 2 :> 1
NoPrefixes == [l \in Labels |-> {}]
Intervals == [l \in Labels |-> 1]

OnePrefix == 1 :> [mode |-> "prefix", age |-> FALSE]
NoSource == [l \in Labels |-> Absent]

Faults == {"cancel", "crash", "prune", "stat", "head", "read", "put", "copy",
           "rename", "remove"}

\* One entry that another machine pulls, as often as it likes; files of the
\* prefix are deleted and requests given up, so that an older one is stored late.
PullFirst == 1 :> 1
NoInterval == 1 :> 0
LateFaults == {"prune", "put", "crash"}
=============================================================================
