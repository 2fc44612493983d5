---------------------------- MODULE MCOriginSync ----------------------------
(***************************************************************************)
(* Small instances of OriginSync.                                          *)
(***************************************************************************)
EXTENDS OriginSync, TLC

CONSTANTS c1, c2, App, Logs, PathA, PathB

\* Two clients that want different databases.
TwoWants == c1 :> App @@ c2 :> Logs

\* A reload swaps the paths behind a label, takes the other label out, or both.
Serving == { App :> PathA @@ Logs :> PathB, App :> PathB @@ Logs :> NoPath }
            \cup { App :> NoPath @@ Logs :> NoPath }
=============================================================================
