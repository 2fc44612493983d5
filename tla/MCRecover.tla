----------------------------- MODULE MCRecover -----------------------------
(***************************************************************************)
(* Small instances of Recover.                                             *)
(***************************************************************************)
EXTENDS Recover, TLC

Stored(label, time, ver, ext, age) ==
    [key |-> ObjectKey(label, Pad(time),
                       [base |-> ver, ext |-> ext, age |-> age]),
     body |-> [ver |-> ver, time |-> time, whole |-> TRUE]]

\* Encrypted backups of the application, an older compressed one and a newer one
\* that is not, and plain ones of another database.
FourBackups == { Stored(1, 0, 1, "gz", TRUE), Stored(1, 1, 2, "db", TRUE),
                 Stored(2, 0, 3, "db", FALSE), Stored(2, 1, 4, "gz", FALSE) }

OwnSource == [l \in Labels |-> l]
NoIntervals == [l \in Labels |-> 0]
\* The labels are "app" and "app-logs".
AppLogs == 1 :> {2} @@ 2 :> {}

Faults == {"upload", "start", "again", "make", "spoil", "remove", "move",
           "crash", "list", "get", "create", "copy", "rename"}
=============================================================================
