----------------------------- MODULE PullClients -----------------------------
(***************************************************************************)
(* A backup directory, the local copy job that fills it, and one of the    *)
(* three commands that pull from it.                                       *)
(***************************************************************************)
EXTENDS RsyncPull, SftpPull

vars == <<dirVars, local, spent, clientVars, pc, conn, silent, file, from,
          outcome, rsyncVars>>

PCs == {"start", "refused", "run", "session", "transfer", "wait", "exiting",
        "close", "verify", "list", "open", "copy", "check", "rest", "select",
        "done"}

TypeOK ==
    /\ pc \in PCs
    /\ DirTypeOK /\ ClientTypeOK /\ RsyncTypeOK

Init == DirInit /\ ClientInit /\ RsyncInit

\* The steps of the command's own goroutine.
ClientStep ==
    \/ (Startup \/ Dial \/ FailDial \/ SftpStep) /\ UNCHANGED rsyncVars
    \/ RsyncStep

Next ==
    \/ ClientStep \/ TakeStop \/ ServerExit \/ Tick \/ Stop
    \/ FallSilent /\ UNCHANGED rsyncVars
    \/ DirStep /\ UNCHANGED <<local, clientVars, pc, conn, silent, file, from,
                              outcome, rsyncVars>>

Spec == Init /\ [][Next]_vars

\* The goroutine runs, a server that still answers comes to its end, and the
\* select, which picks among its ready cases at random, takes the stop at last.
FairSpec ==
    Spec /\ WF_vars(ClientStep) /\ WF_vars(ServerExit) /\ SF_vars(TakeStop)

-----------------------------------------------------------------------------
(* What the commands promise.                                              *)

\* A run that reports no error has brought, for every id it had to bring, a
\* whole database that is at least as new as the newest the directory offered
\* when the run listed it: nothing that the server left out, that broke off,
\* that an earlier run had brought or that a power loss had spoilt passes for it
\* (README: exit code 1 "means any step failed").  The receiver overwrites
\* before it verifies, so only the outcome tells a good copy from a bad one.
CleanRunIsCurrent ==
    (pc \in {"rest", "select", "done"} /\ outcome = "ok") =>
        \A i \in Ids : from[i] # Absent =>
            \E n \in Name : /\ n.id = i /\ local[n] # Absent
                            /\ local[n].form = "whole" /\ local[n].at >= from[i]

\* Between two runs the daemon holds nothing: no connection, no open input, no
\* session, and no child that runs or waits to be reaped, on whichever of its
\* error paths the run ended.
NothingLeftOpen ==
    pc \in {"verify", "rest", "select", "done"} /\ cmd # "sftp" =>
        ~conn /\ ~stdin /\ ~held /\ proc = "none"

\* After Stop the daemon ends: a child is killed, a transfer aborted.  Only an
\* SSH server that has fallen silent can keep it: neither the handshake nor the
\* wait for the end of the session looks at the context.
StopEnds == stopped ~> (pc = "done" \/ (silent /\ ~onMachine))
=============================================================================
