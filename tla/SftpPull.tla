------------------------------ MODULE SftpPull -------------------------------
(***************************************************************************)
(* The sftp one-shot (src/cmd/sftp/oneshot/main.go): it takes the greatest *)
(* name of the remote directory for the newest backup, copies it to the    *)
(* same name in the local directory, and then decompresses and checks it.  *)
(***************************************************************************)
EXTENDS PullClient, Sequences

sftpVars == <<clientVars, conn, silent>>

Fail == pc' = "rest" /\ outcome' = "failed"

\* The order of names: the id, the timestamp, and .tmp after the name itself.
Key(n) ==
    LET link == n.at = 0
    IN  <<IF link THEN LatestRank ELSE n.id, IF link THEN n.id ELSE n.at,
          IF n.tmp THEN 1 ELSE 0>>

Above(a, b) ==
    \E i \in 1 .. 3 : a[i] > b[i] /\ \A j \in 1 .. i - 1 : a[j] = b[j]

\* findLatestBackup.
Latest(names) ==
    CHOOSE n \in names : \A m \in names \ {n} : Above(Key(n), Key(m))

\* What is owed for the name n: a copy of the newest snapshot of its id.
Owed(n) ==
    [i \in Ids |-> IF i = n.id /\ published[i] # {} THEN Max(published[i])
                                                    ELSE Absent]

\* The remote directory is listed.
List ==
    /\ pc = "list" /\ ~silent
    /\ \E names \in Listings :
        IF names = {} THEN Fail /\ UNCHANGED <<file, from>>
        ELSE LET n == Latest(names)
             IN  /\ \E c \in Possible(n) : file' = [name |-> n, holds |-> c]
                 /\ from' = Owed(n) /\ pc' = "open" /\ UNCHANGED outcome
    /\ UNCHANGED <<dirVars, local, spent, sftpVars>>

FailList ==
    /\ pc = "list" /\ Inject("list") /\ Fail
    /\ UNCHANGED <<dirVars, local, file, from, sftpVars>>

\* The remote file is opened, unless it has been renamed since it was listed,
\* and the local one created under its final name: emptied, if it is there.
Open ==
    /\ pc = "open" /\ ~silent
    /\ \/ /\ file.name \in Listing \cup LinksInMaking
          /\ \E c \in Possible(file.name) :
                /\ file' = [file EXCEPT !.holds = c]
                /\ local' = [local EXCEPT ![file.name] =
                                [at |-> c.at, form |-> "part"]]
          /\ pc' = "copy" /\ UNCHANGED outcome
       \/ file.name \notin Listing /\ Fail /\ UNCHANGED <<file, local>>
    /\ UNCHANGED <<dirVars, spent, from, sftpVars>>

\* The local directory cannot be made, or one of the two files not be opened.
FailOpen ==
    /\ pc = "open" /\ Inject("open") /\ Fail
    /\ UNCHANGED <<dirVars, local, file, from, sftpVars>>

Copy ==
    /\ pc = "copy" /\ ~silent
    /\ local' = [local EXCEPT ![file.name] = file.holds]
    /\ pc' = "check"
    /\ UNCHANGED <<dirVars, spent, file, from, outcome, sftpVars>>

\* The copy breaks off: what is there stays.
FailCopy ==
    /\ pc = "copy" /\ Inject("copy") /\ Fail
    /\ UNCHANGED <<dirVars, local, file, from, sftpVars>>

\* decompressFile, whatever the name says, and the integrity check.
Sound(n) == n.id \in zipped /\ local[n].form = "whole"

\* verifyBackup: the database was unpacked to a temporary file; the local file
\* stays whatever comes out.
Check ==
    /\ pc = "check"
    /\ \/ /\ pc' = "rest" /\ UNCHANGED spent
          /\ outcome' = IF Sound(file.name) THEN "ok" ELSE "failed"
       \/ Inject("verify") /\ Fail
    /\ UNCHANGED <<dirVars, local, file, from, sftpVars>>

\* The process exits with the code of the outcome, and its connection with it.
Exit ==
    /\ pc = "rest" /\ cmd = "sftp"
    /\ pc' = "done" /\ conn' = FALSE
    /\ UNCHANGED <<dirVars, local, spent, clientVars, silent, file, from,
                   outcome>>

SftpStep ==
    \/ List \/ FailList \/ Open \/ FailOpen \/ Copy \/ FailCopy \/ Check \/ Exit
=============================================================================
