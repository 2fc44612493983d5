---------------------------- MODULE MCPullClients ----------------------------
(***************************************************************************)
(* A small instance of PullClients.                                        *)
(***************************************************************************)
EXTENDS PullClients, TLC

Setup(c, m, z) == [cmd |-> c, onMachine |-> m, zipped |-> z]

\* Every command, over ids it can pull and over ids it cannot: the one-shots
\* over two, the daemon, which runs again and again, over one.
AllSetups == {Setup("rsync", FALSE, {}), Setup("rsync", TRUE, {3}),
              Setup("daemon", FALSE, {3}), Setup("daemon", TRUE, {1}),
              Setup("sftp", FALSE, {1, 3}), Setup("sftp", FALSE, {3})}
=============================================================================
