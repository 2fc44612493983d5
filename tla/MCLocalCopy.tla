---------------------------- MODULE MCLocalCopy ----------------------------
(***************************************************************************)
(* Small instances of LocalCopy.                                           *)
(***************************************************************************)
EXTENDS LocalCopy, TLC

CONSTANTS Online, Vacuum, App, Logs

Bases == [s \in Sources |-> IF s = App THEN <<"app.db">> ELSE <<"logs.db">>]

Plain(l, s, f) == [label |-> <<l>>, src |-> s, dir |-> 1, freq |-> f,
                   gz |-> FALSE]
Zipped(l, s, f) == [Plain(l, s, f) EXCEPT !.gz = TRUE]
Off(l) == [Plain(l, NoPath, 1) EXCEPT !.src = NoPath]

\* Either job alone over one source: an online job with two plain entries and a
\* deactivated one, or a vacuum job with a plain and a compressed entry.
EitherJob ==
    { Online :> {Plain("a", App, 1), Plain("b", App, 2), Off("o")} @@ Vacuum :> {},
      Online :> {} @@ Vacuum :> {Plain("v", App, 2), Zipped("w", App, 1)} }

\* One online job that a reload turns from a plain entry to a compressed one
\* and off.
Switching == { Online :> {Plain("a", App, 1)}, Online :> {Zipped("a", App, 1)},
               Online :> {Off("a")} }

\* One online job with a single compressed entry.
OneZipped == {Online :> {Zipped("z", App, 1)}}

\* What may happen in a run.  StoreEvents leaves out the lost gzip tail, which
\* has a run of its own, a replaced source, which a pooled connection does not
\* follow, the unreadable directory, which the code documents as "treated as
\* due", a reload, which would change what the names stand for, and the clock
\* being set back.
StoreEvents == EventKinds \ {"close", "replace", "scan", "reload", "clock"}
CloseOnly == {"close"}
=============================================================================
