---------------------------- MODULE SnapshotStore ----------------------------
(***************************************************************************)
(* What the clients of a backup directory rely on: per place (directory    *)
(* and backup id) a growing set of timestamped snapshots, and a latest     *)
(* pointer.  rsync pulls the pointer, S3 upload and sftp pick from the     *)
(* snapshots.                                                              *)
(***************************************************************************)
EXTENDS Integers, FiniteSetsExt

CONSTANTS Place,  \* the places
          Time,   \* timestamps
          Absent  \* no latest snapshot yet

VARIABLES published,  \* published[p]: timestamps of the snapshots at p
          latest      \* latest[p]: timestamp of the one the pointer names

vars == <<published, latest>>

Init ==
    /\ published = [p \in Place |-> {}]
    /\ latest = [p \in Place |-> Absent]

\* A snapshot appears, newer than all those of its place.
Publish(p, t) ==
    /\ \A u \in published[p] : u < t
    /\ published' = [published EXCEPT ![p] = @ \cup {t}]
    /\ UNCHANGED latest

\* The pointer moves to the newest snapshot.
Point(p) ==
    /\ published[p] # {}
    /\ latest' = [latest EXCEPT ![p] = Max(published[p])]
    /\ UNCHANGED published

Next == \E p \in Place : Point(p) \/ \E t \in Time : Publish(p, t)

Spec == Init /\ [][Next]_vars
=============================================================================
