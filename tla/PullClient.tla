----------------------------- MODULE PullClient ------------------------------
(***************************************************************************)
(* What the three pull commands share: start-up (the environment of        *)
(* src/config and its validation, the mains of src/cmd/rsync), the dial of *)
(* src/ssh, and the end of a run.  A behaviour is one process running one  *)
(* of them: the rsync one-shot, the rsync daemon or the sftp one-shot.     *)
(***************************************************************************)
EXTENDS BackupDir

CONSTANTS
    Intervals, \* values of RIP_BCK_INTERVAL, when it is set
    Setups     \* what is run on what: command, -l, the compressed ids

ASSUME ClientAssumption ==
    /\ Intervals \subseteq Int
    /\ Setups \subseteq [cmd : {"rsync", "daemon", "sftp"},
                         onMachine : BOOLEAN, zipped : SUBSET Ids]
    /\ \A s \in Setups : s.cmd = "sftp" => ~s.onMachine

VARIABLES
    cmd,       \* "rsync", "daemon" or "sftp"
    onMachine, \* -l: the rsync server is a child process, and not behind SSH
    pc,        \* where the goroutine of the command stands
    interval,  \* cfg.RsyncDaemon.Interval, which only the daemon reads
    conn,      \* the SSH connection is open
    silent,    \* the server end does not answer any more
    file,      \* the file that is being received, and what it will hold
    from,      \* what a run without error must have brought (history)
    outcome    \* of the last run: "none" yet, "ok" or "failed"

clientVars == <<cmd, onMachine, interval>>

Env == [dirs : BOOLEAN,         \* source and destination directory are set
        made : BOOLEAN,         \* the destination can be made, and the runner
        set : BOOLEAN, interval : Intervals,
        ssh : BOOLEAN,          \* the SSH section is complete
        keys : BOOLEAN]         \* the keys load, landlock restricts

Nothing == [i \in Ids |-> Absent]

ClientTypeOK ==
    /\ cmd \in {"rsync", "daemon", "sftp"} /\ onMachine \in BOOLEAN
    /\ interval \in Int
    /\ conn \in BOOLEAN /\ silent \in BOOLEAN
    /\ file \in [name : Name, holds : Content] \cup {Absent}
    /\ from \in [Ids -> Time \cup {Absent}]
    /\ outcome \in {"none", "ok", "failed"}

ClientInit ==
    /\ \E s \in Setups :
        cmd = s.cmd /\ onMachine = s.onMachine /\ zipped = s.zipped
    /\ pc = "start" /\ interval = 0
    /\ conn = FALSE /\ silent = FALSE
    /\ file = Absent /\ from = Nothing /\ outcome = "none"

-----------------------------------------------------------------------------
\* config.New: an interval that is set must be positive.
NewAccepts(e) == e.dirs /\ (e.set => e.interval > 0)

\* The Interval of the Config it returns.
IntervalOf(e) == IF e.set THEN e.interval ELSE 0

\* ValidateSSH, LoadCredentials and landlock.Restrict, in SSH mode.
SSHAccepts(e) == e.ssh /\ e.keys

\* Mutant: a missing interval passes.
UsableUnvalidated(e) ==
    IF cmd = "sftp" THEN e.keys
    ELSE NewAccepts(e) /\ e.made /\ (~onMachine => SSHAccepts(e))

\* The mains: only the daemon needs the interval, and a runner; sftp has its
\* configuration in the source, and makes its directory in a run.
Usable(e) ==
    IF cmd = "sftp" THEN e.keys
    ELSE /\ NewAccepts(e) /\ e.made
         /\ cmd = "daemon" => IntervalOf(e) # 0   \* ValidateRsyncDaemon
         /\ ~onMachine => SSHAccepts(e)

Startup ==
    /\ pc = "start"
    /\ \E e \in Env :
        IF Usable(e)
        THEN /\ pc' = "run"
             /\ interval' = IF cmd = "daemon" THEN IntervalOf(e) ELSE 0
        ELSE pc' = "refused" /\ UNCHANGED interval
    /\ UNCHANGED <<dirVars, local, spent, cmd, onMachine, conn, silent, file,
                   from, outcome>>

\* ssh.Dial: only the TCP connection has a timeout; a server that accepts it
\* and then says nothing holds the caller in the handshake.
Dial ==
    /\ pc = "run" /\ ~onMachine /\ ~silent
    /\ conn' = TRUE
    /\ pc' = IF cmd = "sftp" THEN "list" ELSE "session"
    /\ UNCHANGED <<dirVars, local, spent, clientVars, silent, file, from,
                   outcome>>

\* The dial fails, or sftp.NewClient does and the connection is closed again.
FailDial ==
    /\ pc = "run" /\ ~onMachine
    /\ Inject("dial")
    /\ pc' = "rest" /\ outcome' = "failed"
    /\ UNCHANGED <<dirVars, local, clientVars, conn, silent, file, from>>

\* The server machine hangs, or the network drops everything.
FallSilent ==
    /\ ~silent /\ pc \notin {"start", "refused", "done"}
    /\ Inject("silent")
    /\ silent' = TRUE
    /\ UNCHANGED <<dirVars, local, clientVars, pc, conn, file, from, outcome>>
=============================================================================
