--------------------------- MODULE MCOnlineBackup ----------------------------
(***************************************************************************)
(* Small instances of OnlineBackup.                                        *)
(***************************************************************************)
EXTENDS OnlineBackup, TLC

\* A page at a time with a pause, two at a time without one, all at once.
Entries == {[pages |-> 1, sleep |-> 1], [pages |-> 2, sleep |-> 0],
            [pages |-> -1, sleep |-> 0]}

\* A reload may change the entry, or take it out.
Configured == Entries
Removable == {[pages |-> 1, sleep |-> 1], Removed}
=============================================================================
