------------------------------ MODULE RsyncPull ------------------------------
(***************************************************************************)
(* The rsync pull: the client run of src/rsync over a child process or an  *)
(* SSH session (src/ssh), the verification after it, and the daemon of     *)
(* src/cmd/rsync/daemon that repeats both on an interval.  The protocol    *)
(* itself is gokrazy's: the server sends a list of files, the receiver     *)
(* writes each to a temporary file and renames it into place.              *)
(***************************************************************************)
EXTENDS PullClient

VARIABLES
    stopped, \* Stop has cancelled the context
    ticker,  \* "none" yet, "armed", or "due": a tick waits in its channel
    proc,    \* the server process: "none", "running" or "exited", not reaped
    stdin,   \* our end of its standard input is open
    held,    \* cmd, or the Session's session, is not nil
    list,    \* the files of the server's list that are still to come
    some,    \* a file of the list has a size
    clean,   \* the server process has met no error
    err      \* the error the run will return

procVars == <<proc, stdin, held>>
listVars == <<list, some, clean>>
daemonVars == <<stopped, ticker>>
rsyncVars == <<daemonVars, procVars, listVars, err>>

RsyncTypeOK ==
    /\ stopped \in BOOLEAN /\ ticker \in {"none", "armed", "due"}
    /\ proc \in {"none", "running", "exited"}
    /\ stdin \in BOOLEAN /\ held \in BOOLEAN
    /\ list \subseteq Ids /\ some \in BOOLEAN /\ clean \in BOOLEAN
    /\ err \in BOOLEAN
    /\ ticker # "none" => interval > 0   \* NewTicker panics otherwise

RsyncInit ==
    /\ stopped = FALSE /\ ticker = "none"
    /\ proc = "none" /\ stdin = FALSE /\ held = FALSE
    /\ list = {} /\ some = FALSE /\ clean = TRUE /\ err = FALSE

\* The files that match latest-*.db.
Linked == {i \in Ids : latest[i] # Absent}
HeldBy(i) == [at |-> latest[i], form |-> FormOf(i, latest[i])]

\* The list is made: what it names, and what the run owes from here on.
MakeList ==
    /\ list' = Linked
    /\ some' = (\E i \in Linked : HeldBy(i).form # "empty")
    /\ from' = latest

Started == proc' = "running" /\ stdin' = TRUE /\ held' = TRUE

-----------------------------------------------------------------------------
(* The run.                                                                *)

\* NewSession: the remote shell expands the glob; when nothing matches the
\* server gets the pattern, finds no such file, and exits with an error.
NewSession ==
    /\ pc = "session" /\ ~silent
    /\ Started /\ MakeList
    /\ clean' = (Linked # {})
    /\ pc' = "transfer"
    /\ UNCHANGED <<dirVars, local, spent, clientVars, conn, silent, file,
                   outcome, daemonVars, err>>

FailSession ==
    /\ pc = "session" /\ Inject("session")
    /\ pc' = "close" /\ err' = TRUE
    /\ UNCHANGED <<dirVars, local, clientVars, conn, silent, file, from,
                   outcome, daemonVars, procVars, listVars>>

\* LocalClient.Run: the glob is expanded here, the child is started; a context
\* that is done keeps it from starting.
Spawn ==
    /\ pc = "run" /\ cmd # "sftp" /\ onMachine
    /\ Linked # {} /\ ~stopped
    /\ Started /\ MakeList
    /\ clean' = TRUE
    /\ pc' = "transfer"
    /\ UNCHANGED <<dirVars, local, spent, clientVars, conn, silent, file,
                   outcome, daemonVars, err>>

FailSpawn ==
    /\ pc = "run" /\ onMachine
    /\ \/ Linked = {} /\ UNCHANGED spent
       \/ stopped /\ UNCHANGED spent
       \/ Inject("spawn")
    /\ pc' = "rest" /\ outcome' = "failed"
    /\ UNCHANGED <<dirVars, local, clientVars, conn, silent, file, from,
                   rsyncVars>>

\* The server opens the next file of its list: a link that has moved since is
\* followed to the snapshot it names now.
SendFile ==
    /\ pc = "transfer" /\ file = Absent
    /\ proc = "running" /\ ~silent
    /\ \E i \in list : file' = [name |-> LinkName(i), holds |-> HeldBy(i)]
    /\ UNCHANGED <<dirVars, local, spent, clientVars, pc, conn, silent, from,
                   outcome, rsyncVars>>

\* It cannot read a file, leaves it out, and will exit with an error.
SkipFile ==
    /\ pc = "transfer" /\ file = Absent
    /\ proc = "running" /\ Inject("sender")
    /\ \E i \in list : list' = list \ {i}
    /\ clean' = FALSE
    /\ UNCHANGED <<dirVars, local, clientVars, pc, conn, silent, file, from,
                   outcome, daemonVars, procVars, some, err>>

\* The receiver has the whole file and renames it into place.
StoreFile ==
    /\ pc = "transfer" /\ file # Absent
    /\ local' = [local EXCEPT ![file.name] = file.holds]
    /\ list' = list \ {file.name.id} /\ file' = Absent
    /\ UNCHANGED <<dirVars, spent, clientVars, pc, conn, silent, from, outcome,
                   daemonVars, procVars, some, clean, err>>

EndTransfer ==
    /\ pc = "transfer" /\ list = {} /\ file = Absent
    /\ pc' = "wait"
    /\ UNCHANGED <<dirVars, local, spent, clientVars, conn, silent, file, from,
                   outcome, rsyncVars>>

\* Run of the receiver returns an error: the stream breaks, the context is
\* done, or the server process has died.  What was renamed stays.
BreakTransfer ==
    /\ pc = "transfer"
    /\ \/ Inject("transfer")
       \/ (stopped \/ proc = "exited") /\ UNCHANGED spent
    /\ pc' = "close" /\ err' = TRUE /\ file' = Absent
    /\ UNCHANGED <<dirVars, local, clientVars, conn, silent, from, outcome,
                   daemonVars, procVars, listVars>>

\* wait: stdin is closed.  The channel of a session whose command is over may
\* be closed already, and closing its input is then an error.
CloseStdin ==
    /\ pc = "wait"
    /\ stdin' = FALSE
    /\ err' \in (IF proc = "exited" /\ ~onMachine THEN BOOLEAN ELSE {FALSE})
    /\ pc' = "exiting"
    /\ UNCHANGED <<dirVars, local, spent, clientVars, conn, silent, file, from,
                   outcome, daemonVars, proc, held, listVars>>

\* The server process comes to its end, by itself or at the end of its input.
ServerExit ==
    /\ proc = "running" /\ pc \in {"wait", "exiting"} /\ ~silent
    /\ proc' = "exited"
    /\ \/ UNCHANGED <<spent, clean>>
       \/ Inject("exit") /\ clean' = FALSE
    /\ UNCHANGED <<dirVars, local, clientVars, pc, conn, silent, file, from,
                   outcome, daemonVars, stdin, held, list, some, err>>

\* Mutant: exec.Command, without the context.
KillChildNever == FALSE

\* exec.CommandContext: the child is killed when the context is done.
KillChild ==
    /\ onMachine /\ stopped /\ proc = "running"
    /\ proc' = "exited" /\ clean' = FALSE
    /\ UNCHANGED <<dirVars, local, spent, clientVars, pc, conn, silent, file,
                   from, outcome, daemonVars, stdin, held, list, some, err>>

\* Mutant: the exit status is not part of the error.
WaitExitIgnored ==
    /\ pc = "exiting" /\ proc = "exited"
    /\ proc' = "none" /\ held' = FALSE
    /\ err' = (err \/ ~some)
    /\ pc' = "close"
    /\ UNCHANGED <<dirVars, local, spent, clientVars, conn, silent, file, from,
                   outcome, daemonVars, stdin, listVars>>

\* The server's end has been waited for, and nothing bounds this wait; then the
\* status and the size the server reported are checked.
Wait ==
    /\ pc = "exiting" /\ proc = "exited"
    /\ proc' = "none" /\ held' = FALSE
    /\ err' = (err \/ ~clean \/ ~some)
    /\ pc' = "close"
    /\ UNCHANGED <<dirVars, local, spent, clientVars, conn, silent, file, from,
                   outcome, daemonVars, stdin, listVars>>

\* Mutant: the child is left alone when the transfer failed before its wait.
CloseNoKill ==
    /\ pc = "close"
    /\ stdin' = FALSE /\ conn' = FALSE /\ UNCHANGED <<held, proc, spent, err>>
    /\ IF err THEN pc' = "rest" /\ outcome' = "failed"
              ELSE pc' = "verify" /\ UNCHANGED outcome
    /\ UNCHANGED <<dirVars, local, clientVars, silent, file, from, daemonVars,
                   listVars>>

\* The deferred functions act on what wait has not dealt with: a child is killed
\* and reaped, which closes its input too; the input and the session are closed;
\* and the SSH connection, which may fail.
Close ==
    /\ pc = "close"
    /\ stdin' = (stdin /\ onMachine /\ ~held)
    /\ proc' = IF held THEN "none" ELSE proc
    /\ held' = FALSE /\ conn' = FALSE
    /\ \/ UNCHANGED <<spent, err>>
       \/ ~onMachine /\ Inject("session") /\ err' = TRUE
    /\ IF err' THEN pc' = "rest" /\ outcome' = "failed"
               ELSE pc' = "verify" /\ UNCHANGED outcome
    /\ UNCHANGED <<dirVars, local, clientVars, silent, file, from, daemonVars,
                   listVars>>

\* A received file: not empty, and the integrity check passes.
Received(n) == local[n].form = "whole"

\* VerifyBackup: every latest-*.db of the local directory, also one of an
\* earlier run; an empty one is removed, a broken one stays.  What cannot be
\* looked at or removed stays too.
Verify ==
    /\ pc = "verify"
    /\ LET files == {n \in Name : n.at = 0 /\ ~n.tmp /\ local[n] # Absent}
           empty == {n \in files : local[n].form = "empty"}
           Without(gone) == [n \in Name |-> IF n \in gone THEN Absent ELSE local[n]]
       IN  \/ /\ local' = Without(empty)
              /\ outcome' = IF files # {} /\ \A n \in files : Received(n)
                            THEN "ok" ELSE "failed"
              /\ UNCHANGED spent
           \/ /\ Inject("verify") /\ outcome' = "failed"
              /\ \E gone \in SUBSET empty : local' = Without(gone)
    /\ pc' = "rest"
    /\ UNCHANGED <<dirVars, clientVars, conn, silent, file, from, rsyncVars>>

-----------------------------------------------------------------------------
(* The daemon around it.                                                   *)

\* The one-shot exits; the daemon starts its ticker after its first run and
\* goes into its select.
EndRun ==
    /\ pc = "rest" /\ cmd # "sftp"
    /\ IF cmd = "rsync" THEN pc' = "done" /\ UNCHANGED ticker
       ELSE pc' = "select" /\ ticker' = IF ticker = "none" THEN "armed" ELSE ticker
    /\ UNCHANGED <<dirVars, local, spent, clientVars, conn, silent, file, from,
                   outcome, stopped, procVars, listVars, err>>

\* The ticker fires; a tick that finds one waiting is dropped.
Tick ==
    /\ ticker = "armed"
    /\ ticker' = "due"
    /\ UNCHANGED <<dirVars, local, spent, clientVars, pc, conn, silent, file,
                   from, outcome, stopped, procVars, listVars, err>>

\* The select: with both cases ready either may be taken.
TakeTick ==
    /\ pc = "select" /\ ticker = "due"
    /\ ticker' = "armed" /\ pc' = "run"
    /\ outcome' = "none" /\ err' = FALSE
    /\ UNCHANGED <<dirVars, local, spent, clientVars, conn, silent, file, from,
                   stopped, procVars, listVars>>

TakeStop ==
    /\ pc = "select" /\ stopped
    /\ pc' = "done"
    /\ UNCHANGED <<dirVars, local, spent, clientVars, conn, silent, file, from,
                   outcome, rsyncVars>>

Stop ==
    /\ cmd = "daemon" /\ ~stopped /\ pc \notin {"start", "refused", "done"}
    /\ stopped' = TRUE
    /\ UNCHANGED <<dirVars, local, spent, clientVars, pc, conn, silent, file,
                   from, outcome, ticker, procVars, listVars, err>>

RsyncStep ==
    \/ NewSession \/ FailSession \/ Spawn \/ FailSpawn
    \/ SendFile \/ SkipFile \/ StoreFile \/ EndTransfer \/ BreakTransfer
    \/ CloseStdin \/ KillChild \/ Wait \/ Close \/ Verify \/ EndRun \/ TakeTick
=============================================================================
